---- MODULE Spec2Model ----
(***************************************************************************)
(* Model of the KPI backend of operadora-bot (backend/app.py): column      *)
(* resolution over a DuckDB catalogue, the loss-ratio (sinistralidade),    *)
(* provider-ranking (prestador) and utilization (utilizacao) endpoints.    *)
(*                                                                         *)
(* Text is modelled as a sequence of one-character strings, so that        *)
(* lower()/upper() and identifier resolution are computed, not assumed.    *)
(* A database is a function from table name to [cols, rows]; a row is a    *)
(* function from the table's physical column names to cells.  A response   *)
(* is a record with the HTTP status and either a body or a detail.         *)
(***************************************************************************)
EXTENDS Integers, Sequences, FiniteSets, TLC

VARIABLES
    db,     \* the DuckDB file: table name -> [cols, rows]
    req,    \* the request being served (endpoint and parameters)
    resp,   \* the response produced for req
    loader, \* the data loader process (load_data.py): its position
    seen    \* the connection of the request and what it has read so far

vars == <<db, req, resp, loader, seen>>

\* load_data.py has not been started
LoaderOff == [pc |-> "off", i |-> 0]

\* the request holds no connection
NoConn == [open |-> FALSE, obs |-> <<>>]

----------------------------------------------------------------------------
\* Text

Uppers ==
    <<"A","B","C","D","E","F","G","H","I","J","K","L","M",
      "N","O","P","Q","R","S","T","U","V","W","X","Y","Z">>

Lowers ==
    <<"a","b","c","d","e","f","g","h","i","j","k","l","m",
      "n","o","p","q","r","s","t","u","v","w","x","y","z">>

\* the character of `to` at the place c has in `from`, or c itself
MapCh(c, from, to) ==
    IF \E i \in 1..Len(from) : from[i] = c
    THEN to[CHOOSE i \in 1..Len(from) : from[i] = c]
    ELSE c

\* str.lower() / SQL lower() on one character
LowerCh(c) == MapCh(c, Uppers, Lowers)

\* SQL upper() on one character
UpperCh(c) == MapCh(c, Lowers, Uppers)

lower(s) == [i \in 1..Len(s) |-> LowerCh(s[i])]

upper(s) == [i \in 1..Len(s) |-> UpperCh(s[i])]

\* the least element of a non-empty set of integers
MinOf(S) == CHOOSE x \in S : \A y \in S : x <= y

\* the greatest element of a non-empty set of integers
MaxOf(S) == CHOOSE x \in S : \A y \in S : x >= y

----------------------------------------------------------------------------
\* Candidate column names, in priority order

\* CAND_DATA_CONTA (app.py:71-74)
CAND_DATA_CONTA ==
    << <<"d","t","_","c","o","m","p","e","t","e","n","c","i","a">>,  \* dt_competencia
       <<"c","o","m","p","e","t","e","n","c","i","a">>,  \* competencia
       <<"m","e","s","_","c","o","m","p","e","t","e","n","c","i","a">>,  \* mes_competencia
       <<"d","t","_","e","m","i","s","s","a","o">>,  \* dt_emissao
       <<"d","t","_","p","a","g","a","m","e","n","t","o">>,  \* dt_pagamento
       <<"d","t","_","a","p","r","e","s","e","n","t","a","c","a","o">>,  \* dt_apresentacao
       <<"d","a","t","a">>,  \* data
       <<"d","t","_","l","i","b","e","r","a","c","a","o">> >>  \* dt_liberacao

\* CAND_VALOR_CONTA (app.py:75-78)
CAND_VALOR_CONTA ==
    << <<"v","l","_","p","a","g","o">>,  \* vl_pago
       <<"v","l","_","l","i","b","e","r","a","d","o">>,  \* vl_liberado
       <<"v","l","_","a","p","r","o","v","a","d","o">>,  \* vl_aprovado
       <<"v","l","_","t","o","t","a","l">>,  \* vl_total
       <<"v","l","_","c","u","s","t","o">>,  \* vl_custo
       <<"v","a","l","o","r","_","p","a","g","o">>,  \* valor_pago
       <<"v","a","l","o","r","_","l","i","b","e","r","a","d","o">>,  \* valor_liberado
       <<"v","a","l","o","r","_","a","p","r","o","v","a","d","o">>,  \* valor_aprovado
       <<"v","a","l","o","r","_","t","o","t","a","l">>,  \* valor_total
       <<"v","a","l","o","r">> >>  \* valor

\* CAND_DATA_MENS (app.py:79-82)
CAND_DATA_MENS ==
    << <<"d","t","_","c","o","m","p","e","t","e","n","c","i","a">>,  \* dt_competencia
       <<"c","o","m","p","e","t","e","n","c","i","a">>,  \* competencia
       <<"m","e","s","_","c","o","m","p","e","t","e","n","c","i","a">>,  \* mes_competencia
       <<"d","t","_","e","m","i","s","s","a","o">>,  \* dt_emissao
       <<"d","t","_","p","a","g","a","m","e","n","t","o">>,  \* dt_pagamento
       <<"d","a","t","a">>,  \* data
       <<"d","t","_","r","e","f","e","r","e","n","c","i","a">>,  \* dt_referencia
       <<"d","t","_","v","e","n","c","i","m","e","n","t","o">> >>  \* dt_vencimento

\* CAND_VALOR_MENS (app.py:83-86)
CAND_VALOR_MENS ==
    << <<"v","l","_","f","a","t","u","r","a","d","o">>,  \* vl_faturado
       <<"v","l","_","l","i","q","u","i","d","o">>,  \* vl_liquido
       <<"v","l","_","r","e","c","e","i","t","a">>,  \* vl_receita
       <<"v","l","_","t","o","t","a","l">>,  \* vl_total
       <<"v","a","l","o","r","_","f","a","t","u","r","a","d","o">>,  \* valor_faturado
       <<"v","a","l","o","r","_","l","i","q","u","i","d","o">>,  \* valor_liquido
       <<"v","a","l","o","r","_","t","o","t","a","l">>,  \* valor_total
       <<"v","a","l","o","r">>,  \* valor
       <<"r","e","c","e","i","t","a">> >>  \* receita

\* CAND_PRODUTO (app.py:87-89)
CAND_PRODUTO ==
    << <<"p","r","o","d","u","t","o">>,  \* produto
       <<"d","s","_","p","r","o","d","u","t","o">>,  \* ds_produto
       <<"c","d","_","p","r","o","d","u","t","o">>,  \* cd_produto
       <<"n","o","m","e","_","p","r","o","d","u","t","o">>,  \* nome_produto
       <<"p","l","a","n","o">>,  \* plano
       <<"d","s","_","p","l","a","n","o">>,  \* ds_plano
       <<"p","r","o","d","u","t","o","_","c","o","m","e","r","c","i","a","l">> >>  \* produto_comercial

\* CAND_ID_BENEF (app.py:90-90)
CAND_ID_BENEF ==
    << <<"i","d","_","b","e","n","e","f","i","c","i","a","r","i","o">>,  \* id_beneficiario
       <<"i","d","_","b","e","n","e","f">>,  \* id_benef
       <<"i","d","_","p","e","s","s","o","a">>,  \* id_pessoa
       <<"i","d","_","c","l","i","e","n","t","e">> >>  \* id_cliente

\* CAND_DT_NASC (app.py:91-91)
CAND_DT_NASC ==
    << <<"d","t","_","n","a","s","c","i","m","e","n","t","o">>,  \* dt_nascimento
       <<"n","a","s","c","i","m","e","n","t","o">>,  \* nascimento
       <<"d","a","t","a","_","n","a","s","c","i","m","e","n","t","o">> >>  \* data_nascimento

\* CAND_ID_PREST_AUT (app.py:92-92)
CAND_ID_PREST_AUT ==
    << <<"i","d","_","p","r","e","s","t","a","d","o","r">> >>  \* id_prestador

\* CAND_ID_PREST_CONTA (app.py:93-93)
CAND_ID_PREST_CONTA ==
    << <<"i","d","_","p","r","e","s","t","a","d","o","r","_","p","a","g","a","m","e","n","t","o">>,  \* id_prestador_pagamento
       <<"i","d","_","p","r","e","s","t","a","d","o","r">>,  \* id_prestador
       <<"i","d","_","p","r","e","s","t","a","d","o","r","_","e","n","v","i","o">> >>  \* id_prestador_envio

\* CAND_NM_PREST (app.py:94-94)
CAND_NM_PREST ==
    << <<"n","m","_","p","r","e","s","t","a","d","o","r">>,  \* nm_prestador
       <<"d","s","_","p","r","e","s","t","a","d","o","r">>,  \* ds_prestador
       <<"n","o","m","e">>,  \* nome
       <<"r","a","z","a","o","_","s","o","c","i","a","l">> >>  \* razao_social

\* CAND_STATUS_BENEF (app.py:97-99)
CAND_STATUS_BENEF ==
    << <<"d","s","_","s","i","t","u","a","c","a","o">>,  \* ds_situacao
       <<"s","i","t","u","a","c","a","o">>,  \* situacao
       <<"s","t","a","t","u","s">>,  \* status
       <<"s","t","_","b","e","n","e","f","i","c","i","a","r","i","o">>,  \* st_beneficiario
       <<"f","l","_","a","t","i","v","o">>,  \* fl_ativo
       <<"i","n","_","a","t","i","v","o">>,  \* in_ativo
       <<"a","t","i","v","o">> >>  \* ativo

\* CAND_CIDADE (app.py:102-102)
CAND_CIDADE ==
    << <<"c","i","d","a","d","e">>,  \* cidade
       <<"n","m","_","c","i","d","a","d","e">>,  \* nm_cidade
       <<"d","s","_","c","i","d","a","d","e">>,  \* ds_cidade
       <<"m","u","n","i","c","i","p","i","o">>,  \* municipio
       <<"c","i","d","a","d","e","_","b","e","n","e","f","i","c","i","a","r","i","o">> >>  \* cidade_beneficiario

\* CAND_UF (app.py:103-103)
CAND_UF ==
    << <<"u","f">>,  \* uf
       <<"s","g","_","u","f">>,  \* sg_uf
       <<"d","s","_","u","f">>,  \* ds_uf
       <<"e","s","t","a","d","o">> >>  \* estado
\* literal column names used by the handlers
id_beneficiario == <<"i","d","_","b","e","n","e","f","i","c","i","a","r","i","o">>

dt_autorizacao == <<"d","t","_","a","u","t","o","r","i","z","a","c","a","o">>

qt_autorizada == <<"q","t","_","a","u","t","o","r","i","z","a","d","a">>

\* ["sexo","ds_sexo","cd_sexo"]
CAND_SEXO ==
    << <<"s","e","x","o">>,
       <<"d","s","_","s","e","x","o">>,
       <<"c","d","_","s","e","x","o">> >>

\* ["id_prestador","id_prest"]
CAND_ID_PREST_TAB ==
    << <<"i","d","_","p","r","e","s","t","a","d","o","r">>,
       <<"i","d","_","p","r","e","s","t">> >>

----------------------------------------------------------------------------
\* Catalogue access

\* find_col's "no candidate matched" (Python None); never a column name,
\* because an empty candidate is skipped
NoneCol == <<>>

\* table names are lower-case literals in the loader and in every handler, so
\* lower(table_name) = lower(?) is membership
table_exists(d, name) == name \in DOMAIN d

\* PRAGMA table_info: the physical column names (callers check table_exists)
get_cols(d, table) == d[table].cols

\* a mutation of find_col: the last matching candidate wins
find_col_last(d, table, candidates) ==
    LET cols == {lower(c) : c \in get_cols(d, table)}
        hits == {i \in 1..Len(candidates) :
                    candidates[i] # <<>> /\ lower(candidates[i]) \in cols}
    IN  IF hits = {} THEN NoneCol ELSE candidates[MaxOf(hits)]

\* a mutation of find_col: with no exact match, a candidate that equals a
\* column once both are stripped of "-" and " " is accepted
find_col_fuzzy(d, table, candidates) ==
    LET Strip(s) == SelectSeq(lower(s), LAMBDA c : c \notin {"-", " "})
        cols == {lower(c) : c \in get_cols(d, table)}
        hits == {i \in 1..Len(candidates) :
                    candidates[i] # <<>> /\ lower(candidates[i]) \in cols}
        loose == {i \in 1..Len(candidates) :
                    candidates[i] # <<>>
                    /\ Strip(candidates[i]) \in {Strip(c) : c \in cols}}
    IN  IF hits # {} THEN candidates[MinOf(hits)]
        ELSE IF loose # {} THEN candidates[MinOf(loose)]
        ELSE NoneCol

\* the indexes of the candidates whose lower-case form is one of cols
Matches(candidates, cols) ==
    {i \in 1..Len(candidates) : candidates[i] # <<>> /\ lower(candidates[i]) \in cols}

\* for cand in candidates: if cand and cand.lower() in cols: return cand
FirstOf(candidates, hits) ==
    IF hits = {} THEN NoneCol ELSE candidates[MinOf(hits)]

\* the first candidate whose lower-case form is a lower-cased column; the
\* candidate itself is returned
find_col(d, table, candidates) ==
    FirstOf(candidates, Matches(candidates, {lower(c) : c \in get_cols(d, table)}))

\* DuckDB resolves an identifier case-insensitively: the physical column a
\* name returned by find_col denotes in the generated SQL
ColRef(d, table, name) ==
    CHOOSE c \in get_cols(d, table) : lower(c) = lower(name)

\* HTTPException(status_code, detail)
HTTPException(code, detail) == [status |-> code, detail |-> detail]

\* a handler's returned value, serialised by FastAPI with status 200
Ok(body) == [status |-> 200, body |-> body]

\* the state before any request was served
NoReq == [op |-> "none"]

NoResp == [status |-> 0]

----------------------------------------------------------------------------
\* Column resolution on its own: find_col applied to any candidate list
\* against any catalogue of one table

\* most columns of the table in a resolution scenario
MaxAvail == 2

\* most candidates of a list in a resolution scenario
MaxCands == 2

\* short names that differ by letter case (ab, Ab; cd, CD), by a character
\* outside [a-z0-9_] (a-b), or by containment (b, ab, abc)
ResolvePool ==
    { <<"a","b">>, <<"A","b">>, <<"a","-","b">>, <<"a","b","c">>,
      <<"b">>, <<"c","d">>, <<"C","D">> }

\* DuckDB rejects two columns of one table that are equal case-insensitively
ValidCols(A) == \A x \in A, y \in A : lower(x) = lower(y) => x = y

ResolveAvail ==
    {A \in SUBSET ResolvePool : A # {} /\ Cardinality(A) <= MaxAvail /\ ValidCols(A)}

\* candidate lists; the empty string is a candidate find_col skips
ResolveCands ==
    UNION {[1..n -> ResolvePool \cup {<<>>}] : n \in 0..MaxCands}

InitResolve ==
    /\ db \in {[t \in {"conta"} |-> [cols |-> A, rows |-> <<>>]] : A \in ResolveAvail}
    /\ req \in {[op |-> "find_col", table |-> t, candidates |-> c] :
                    t \in {"conta", "mensalidade"}, c \in ResolveCands}
    /\ resp = NoResp
    /\ loader = LoaderOff
    /\ seen = NoConn

\* a caller of find_col: get_cols raises 400 for a missing table
CallFindCol ==
    /\ req.op = "find_col" /\ resp = NoResp
    /\ resp' = IF ~table_exists(db, req.table)
               THEN HTTPException(400, [text |-> "Tabela '{table}' nao existe no DuckDB.",
                                        tables |-> {req.table}, columns |-> {}])
               ELSE Ok(find_col(db, req.table, req.candidates))
    /\ UNCHANGED <<db, req, loader, seen>>

NextResolve == CallFindCol

SpecResolve == InitResolve /\ [][NextResolve]_vars

\* the candidates of the request that equal some column case-insensitively
ExactHits ==
    {i \in 1..Len(req.candidates) :
        req.candidates[i] # <<>>
        /\ \E c \in get_cols(db, req.table) : lower(c) = lower(req.candidates[i])}

Resolved == req.op = "find_col" /\ resp.status = 200

\* C3 as stated: when some candidate equals an available column
\* case-insensitively, find_col returns the available physical column matched
\* by the earliest such candidate.
C3_ReturnsPhysicalColumn ==
    (Resolved /\ ExactHits # {}) =>
        /\ resp.body \in get_cols(db, req.table)
        /\ lower(resp.body) = lower(req.candidates[MinOf(ExactHits)])

\* C3 amended: when some candidate equals an available column
\* case-insensitively, find_col returns the earliest such candidate, in the
\* candidate's own spelling; it names the matched column up to letter case,
\* and a later matching candidate is never preferred.
C3_ReturnsEarliestCandidate ==
    (Resolved /\ ExactHits # {}) =>
        /\ resp.body = req.candidates[MinOf(ExactHits)]
        /\ \E c \in get_cols(db, req.table) : lower(c) = lower(resp.body)

\* two candidates match two different columns exactly, the earlier one in
\* another letter case than its column, and the earlier one is returned
C3_Witness ==
    /\ Resolved
    /\ Cardinality(ExactHits) = 2
    /\ lower(req.candidates[1]) # lower(req.candidates[2])
    /\ req.candidates[1] \notin get_cols(db, req.table)
    /\ resp.body = req.candidates[1]

\* the characters kept by normalisation to [a-z0-9_]
NormChars ==
    { "a","b","c","d","e","f","g","h","i","j","k","l","m","n","o","p","q","r",
      "s","t","u","v","w","x","y","z","0","1","2","3","4","5","6","7","8","9","_" }

KeepNorm(c) == c \in NormChars

\* lower-case, then strip to [a-z0-9_]
Normalize(s) == SelectSeq(lower(s), KeepNorm)

\* b occurs in a as a contiguous run
Contains(a, b) ==
    \E i \in 0..(Len(a) - Len(b)) : SubSeq(a, i + 1, i + Len(b)) = b

\* the candidates of the request that equal some column after normalisation
NormHits ==
    {i \in 1..Len(req.candidates) :
        req.candidates[i] # <<>>
        /\ \E c \in get_cols(db, req.table) :
              Normalize(c) = Normalize(req.candidates[i])}

\* the candidates of the request that contain, or are contained in, a column
SubHits ==
    {i \in 1..Len(req.candidates) :
        req.candidates[i] # <<>>
        /\ \E c \in get_cols(db, req.table) :
              Contains(lower(c), lower(req.candidates[i]))
              \/ Contains(lower(req.candidates[i]), lower(c))}

\* C4 as stated: with no exact match, find_col returns a column matching a
\* candidate after normalisation, failing that one matching by substring, and
\* None only when all three tiers fail.
C4_ThreeTiers ==
    (Resolved /\ ExactHits = {}) =>
        /\ NormHits # {} =>
              \E c \in get_cols(db, req.table) :
                  /\ Normalize(c) = Normalize(req.candidates[MinOf(NormHits)])
                  /\ lower(resp.body) = lower(c)
        /\ (NormHits = {} /\ SubHits # {}) =>
              \E c \in get_cols(db, req.table) :
                  /\ \/ Contains(lower(c), lower(req.candidates[MinOf(SubHits)]))
                     \/ Contains(lower(req.candidates[MinOf(SubHits)]), lower(c))
                  /\ lower(resp.body) = lower(c)
        /\ resp.body = NoneCol => (NormHits = {} /\ SubHits = {})

\* C4 amended: resolution has the exact tier only: find_col returns None
\* exactly when no candidate equals an available column case-insensitively,
\* also when a candidate matches a column after normalisation or by substring.
C4_ExactTierOnly ==
    Resolved => (resp.body = NoneCol <=> ExactHits = {})

\* no candidate matches exactly, one matches after normalisation, and the
\* result is None
C4_Witness ==
    /\ Resolved
    /\ ExactHits = {}
    /\ NormHits # {}
    /\ resp.body = NoneCol

----------------------------------------------------------------------------
\* Cells and SQL expressions.  The date and amount columns of the loaded
\* tables are VARCHAR (text or NULL), the case the TRY_STRPTIME / REPLACE
\* expressions of the handlers are written for.

\* SQL NULL / Python None
Null == [k |-> "null"]

\* a DOUBLE or INTEGER value; amounts are counted in hundredths (centavos)
Num(n) == [k |-> "num", n |-> n]

\* a VARCHAR cell or string value
Txt(s) == [k |-> "txt", s |-> s]

\* a DATE or TIMESTAMP value
Date(y, m, d) == [k |-> "date", y |-> y, m |-> m, d |-> d]

\* a conversion error raised while a query runs
Raise == [k |-> "error"]

DigitCh == <<"0","1","2","3","4","5","6","7","8","9">>

IsDigit(c) == \E n \in 1..10 : DigitCh[n] = c

DigitVal(c) == (CHOOSE n \in 1..10 : DigitCh[n] = c) - 1

AllDigits(s) == \A i \in 1..Len(s) : IsDigit(s[i])

RECURSIVE NumVal(_)
\* the value of a run of decimal digits
NumVal(s) ==
    IF s = <<>> THEN 0
    ELSE NumVal(SubSeq(s, 1, Len(s) - 1)) * 10 + DigitVal(s[Len(s)])

\* %02d
Fmt2(n) == <<DigitCh[((n \div 10) % 10) + 1], DigitCh[(n % 10) + 1]>>

\* %04d
Fmt4(n) == Fmt2(n \div 100) \o Fmt2(n % 100)

\* "YYYY-MM" of a year and a month
MonthStr(y, m) == Fmt4(y) \o <<"-">> \o Fmt2(m)

IsLeap(y) == (y % 4 = 0 /\ y % 100 # 0) \/ y % 400 = 0

DaysIn(y, m) ==
    IF m = 2 THEN (IF IsLeap(y) THEN 29 ELSE 28)
    ELSE IF m \in {4, 6, 9, 11} THEN 30 ELSE 31

ValidDate(y, m, d) == m \in 1..12 /\ d \in 1..DaysIn(y, m)

\* DATE_CANDIDATES = ["%Y-%m-%d", "%d/%m/%Y", "%d-%m-%Y", "%Y%m%d", "%Y/%m/%d"],
\* each format as its fields (Y, m, d) and literal characters
DATE_CANDIDATES ==
    << <<"Y","-","m","-","d">>,
       <<"d","/","m","/","Y">>,
       <<"d","-","m","-","Y">>,
       <<"Y","m","d">>,
       <<"Y","/","m","/","d">> >>

RECURSIVE StrpFields(_, _, _)
\* the fields of s read by format fmt (zero-padded, %Y of four digits), or
\* Null when s does not match
StrpFields(s, fmt, acc) ==
    IF fmt = <<>> THEN (IF s = <<>> THEN acc ELSE Null)
    ELSE LET f == Head(fmt)
             w == IF f = "Y" THEN 4 ELSE 2
         IN  IF f \in {"Y", "m", "d"}
             THEN IF Len(s) >= w /\ AllDigits(SubSeq(s, 1, w))
                  THEN StrpFields(SubSeq(s, w + 1, Len(s)), Tail(fmt),
                                  [acc EXCEPT ![f] = NumVal(SubSeq(s, 1, w))])
                  ELSE Null
             ELSE IF Len(s) >= 1 /\ s[1] = f
                  THEN StrpFields(Tail(s), Tail(fmt), acc)
                  ELSE Null

\* the date of the fields r read from a text, NULL when there is none
DateOf(r) ==
    IF r = Null THEN Null
    ELSE IF ValidDate(r.Y, r.m, r.d) THEN Date(r.Y, r.m, r.d) ELSE Null

\* TRY_STRPTIME(col, fmt): the date, or NULL (also for a NULL col)
TRY_STRPTIME(c, fmt) ==
    IF c.k # "txt" THEN Null
    ELSE DateOf(StrpFields(c.s, fmt, [Y |-> 0, m |-> 0, d |-> 0]))

\* the value if it is not NULL, else the conversion error
OrRaise(v) == IF v = Null THEN Raise ELSE v

\* CAST(col AS DATE) of a VARCHAR: the ISO form is accepted, any other text
\* raises a conversion error; NULL stays NULL
CastDate(c) ==
    IF c.k = "null" THEN Null ELSE OrRaise(TRY_STRPTIME(c, DATE_CANDIDATES[1]))

\* COALESCE(v1, ..., vn): the first value that is not NULL
COALESCE(vals) ==
    IF \A i \in 1..Len(vals) : vals[i] = Null THEN Null
    ELSE vals[MinOf({i \in 1..Len(vals) : vals[i] # Null})]

\* COALESCE(TRY_STRPTIME(col, f1), ..., TRY_STRPTIME(col, f5), CAST(col AS DATE)):
\* the first format that parses wins; the CAST is reached by NULL and by text
\* no format parses
CoalesceDate(c) ==
    COALESCE([i \in 1..Len(DATE_CANDIDATES) |-> TRY_STRPTIME(c, DATE_CANDIDATES[i])]
             \o <<CastDate(c)>>)

\* strftime('%Y-%m', dt): the month as text; NULL and the conversion error
\* pass through
strftime_Ym(dt) == IF dt.k = "date" THEN Txt(MonthStr(dt.y, dt.m)) ELSE dt

\* strftime('%Y-%m', COALESCE(...)): the month as text, NULL, or the
\* conversion error of the trailing CAST
month_expr(c) == strftime_Ym(CoalesceDate(c))

RECURSIVE TrimSp(_)
\* a text without the blanks around it
TrimSp(s) ==
    IF s # <<>> /\ Head(s) = " " THEN TrimSp(Tail(s))
    ELSE IF s # <<>> /\ s[Len(s)] = " " THEN TrimSp(SubSeq(s, 1, Len(s) - 1))
    ELSE s

RECURSIVE ReplaceAll(_, _, _)
\* REPLACE(s, pat, rep)
ReplaceAll(s, pat, rep) ==
    IF Len(s) < Len(pat) THEN s
    ELSE IF SubSeq(s, 1, Len(pat)) = pat
         THEN rep \o ReplaceAll(SubSeq(s, Len(pat) + 1, Len(s)), pat, rep)
         ELSE <<Head(s)>> \o ReplaceAll(Tail(s), pat, rep)

\* the hundredths of a fraction; amounts are counted in hundredths, the digits
\* beyond them are dropped
Frac(fp) ==
    IF Len(fp) = 0 THEN 0
    ELSE IF Len(fp) = 1 THEN NumVal(fp) * 10
    ELSE NumVal(SubSeq(fp, 1, 2))

\* the number of sign neg, integer digits ip and fraction digits fp, or NULL
\* when they are no number
NumberOf(neg, ip, fp) ==
    IF AllDigits(ip) /\ AllDigits(fp) /\ Len(ip) + Len(fp) >= 1
    THEN Num((IF neg THEN -1 ELSE 1) * (NumVal(ip) * 100 + Frac(fp)))
    ELSE Null

\* the number of sign neg and unsigned text u, split at its dots
Unsigned(neg, u, dots) ==
    IF dots = {} THEN NumberOf(neg, u, <<>>)
    ELSE IF Cardinality(dots) > 1 THEN Null
    ELSE NumberOf(neg, SubSeq(u, 1, MinOf(dots) - 1), SubSeq(u, MinOf(dots) + 1, Len(u)))

\* the positions of the dots of a text
Dots(u) == {i \in 1..Len(u) : u[i] = "."}

\* the number a text without blanks around it spells
TryCastTrimmed(s) ==
    IF Len(s) >= 1 /\ s[1] = "-"
    THEN Unsigned(TRUE, Tail(s), Dots(Tail(s)))
    ELSE Unsigned(FALSE, s, Dots(s))

\* TRY_CAST(text AS DOUBLE) in hundredths: blanks around, an optional sign,
\* digits and an optional fraction; NULL otherwise (no text in exponent
\* form or naming inf or nan is drawn)
TryCastText(s) == TryCastTrimmed(TrimSp(s))

\* TRY_CAST(col AS DOUBLE)
TRY_CAST_DOUBLE(c) ==
    IF c.k = "num" THEN c
    ELSE IF c.k = "txt" THEN TryCastText(c.s)
    ELSE Null

\* REPLACE(REPLACE(REPLACE(REPLACE(col, 'R$', ''), ' ', ''), '.', ''), ',', '.')
sanitized(c) ==
    IF c.k # "txt" THEN c
    ELSE Txt(ReplaceAll(ReplaceAll(ReplaceAll(ReplaceAll(c.s,
                <<"R", "$">>, <<>>), <<" ">>, <<>>), <<".">>, <<>>), <<",">>, <<".">>))

\* a mutation of numeric_expr: the sanitized text is cast first
numeric_expr_sanitized_first(c) ==
    COALESCE(<<TRY_CAST_DOUBLE(sanitized(c)), TRY_CAST_DOUBLE(c), Num(0)>>).n

\* COALESCE(TRY_CAST(col AS DOUBLE), TRY_CAST(sanitized AS DOUBLE), 0), in
\* hundredths
numeric_expr(c) ==
    COALESCE(<<TRY_CAST_DOUBLE(c), TRY_CAST_DOUBLE(sanitized(c)), Num(0)>>).n

\* the order of two characters of a month string ('-' sorts before digits)
Ord(c) == IF IsDigit(c) THEN DigitVal(c) + 1 ELSE 0

\* a < b for two strings, character by character
StrLess(a, b) ==
    \E i \in 1..(IF Len(a) < Len(b) THEN Len(a) ELSE Len(b)) + 1 :
        /\ \A j \in 1..(i - 1) : a[j] = b[j]
        /\ \/ (i > Len(a) /\ i <= Len(b))
           \/ (i <= Len(a) /\ i <= Len(b) /\ Ord(a[i]) < Ord(b[i]))

----------------------------------------------------------------------------
\* Loss ratio (sinistralidade)

\* the detail of an HTTPException: its text, and the table and column names
\* that text spells out
Detail(text, tables, columns) ==
    [text |-> text, tables |-> tables, columns |-> columns]

\* an exception no handler catches (a DuckDB error, a ValueError): FastAPI
\* answers 500
InternalError == HTTPException(500, Detail("Internal Server Error", {}, {}))

\* a/b as the exact quotient
Div(a, b) == [k |-> "ratio", num |-> a, den |-> b]

Abs(n) == IF n < 0 THEN -n ELSE n

RECURSIVE Gcd(_, _)
\* the greatest common divisor of two naturals
Gcd(a, b) == IF b = 0 THEN a ELSE Gcd(b, a % b)

\* n / g over d / g
Over(n, d, g) == Div(n \div g, d \div g)

\* a quotient in lowest terms (the arithmetic below keeps its numbers small)
Lowest(r) == Over(r.num, r.den, Gcd(Abs(r.num), Abs(r.den)))

\* exact arithmetic on quotients with non-zero denominators
Plus(a, b) == Lowest(Div(a.num * b.den + b.num * a.den, a.den * b.den))

RatAdd(a, b) == Plus(Lowest(a), Lowest(b))

Minus(a, b) == Lowest(Div(a.num * b.den - b.num * a.den, a.den * b.den))

RatSub(a, b) == Minus(Lowest(a), Lowest(b))

Quot(a, b) == Lowest(Div(a.num * b.den, a.den * b.num))

\* a / b for b # 0
RatDiv(a, b) == Quot(Lowest(a), Lowest(b))

Same(a, b) == a.num * b.den = b.num * a.den

RatEq(a, b) == Same(Lowest(a), Lowest(b))

Less(a, b) ==
    IF (a.den > 0) = (b.den > 0)
    THEN a.num * b.den < b.num * a.den
    ELSE a.num * b.den > b.num * a.den

\* a < b
RatLess(a, b) == Less(Lowest(a), Lowest(b))

RECURSIVE RatSum(_)
RatSum(s) == IF s = <<>> THEN Div(0, 1) ELSE RatAdd(Head(s), RatSum(Tail(s)))

\* a mutation of sinistralidade: a zero denominator yields 0
sinistralidade_zero(custo, receita) ==
    IF receita # 0 THEN Div(custo, receita) ELSE Div(0, 1)

\* (custo / receita) if receita != 0 else None
sinistralidade(custo, receita) ==
    IF receita # 0 THEN Div(custo, receita) ELSE Null

RECURSIVE SumSeq(_)
SumSeq(s) == IF s = <<>> THEN 0 ELSE Head(s) + SumSeq(Tail(s))

RECURSIVE SumFn(_)
\* the sum of the values of a function with a finite domain
SumFn(f) ==
    IF DOMAIN f = {} THEN 0
    ELSE LET x == CHOOSE y \in DOMAIN f : TRUE
         IN  f[x] + SumFn([y \in DOMAIN f \ {x} |-> f[y]])

\* the cell of a row under the column an identifier denotes
Cell(d, table, row, name) == row[ColRef(d, table, name)]

\* a mutation of val_exprs: the message for 'conta' is raised for
\* 'mensalidade' too
val_exprs_copied(dc, vc, dm, vm) ==
    IF dc = NoneCol \/ vc = NoneCol \/ dm = NoneCol \/ vm = NoneCol
    THEN [ok |-> FALSE,
          err |-> HTTPException(400,
                    Detail("Nao encontrei DATA/VALOR em 'conta' (ex.: dt_competencia, vl_liberado).",
                           {"conta"}, {CAND_DATA_CONTA[1], CAND_VALOR_CONTA[2]}))]
    ELSE [ok |-> TRUE, data_conta |-> dc, valor_conta |-> vc,
          data_mens |-> dm, valor_mens |-> vm]

\* if not (data_conta and valor_conta): raise ...; if not (data_mens and
\* valor_mens): raise ...; return the four expressions
val_exprs(dc, vc, dm, vm) ==
    IF dc = NoneCol \/ vc = NoneCol
    THEN [ok |-> FALSE,
          err |-> HTTPException(400,
                    Detail("Nao encontrei DATA/VALOR em 'conta' (ex.: dt_competencia, vl_liberado).",
                           {"conta"}, {CAND_DATA_CONTA[1], CAND_VALOR_CONTA[2]}))]
    ELSE IF dm = NoneCol \/ vm = NoneCol
    THEN [ok |-> FALSE,
          err |-> HTTPException(400,
                    Detail("Nao encontrei DATA/VALOR em 'mensalidade' (ex.: dt_competencia, vl_faturado).",
                           {"mensalidade"}, {CAND_DATA_MENS[1], CAND_VALOR_MENS[1]}))]
    ELSE [ok |-> TRUE, data_conta |-> dc, valor_conta |-> vc,
          data_mens |-> dm, valor_mens |-> vm]

\* the date and value columns of conta and mensalidade, or the 400 raised
\* when a table or a column is not found
get_competencia_and_val_exprs(d) ==
    IF ~table_exists(d, "conta") \/ ~table_exists(d, "mensalidade")
    THEN [ok |-> FALSE,
          err |-> HTTPException(400, Detail("Requer tabelas 'conta' e 'mensalidade'.",
                                            {"conta", "mensalidade"}, {}))]
    ELSE val_exprs(find_col(d, "conta", CAND_DATA_CONTA),
                   find_col(d, "conta", CAND_VALOR_CONTA),
                   find_col(d, "mensalidade", CAND_DATA_MENS),
                   find_col(d, "mensalidade", CAND_VALOR_MENS))

\* the rows of a table as a query over {mes} and {valor} sees them: the month
\* expression and the numeric expression of each row, with the row itself
Lancamentos(d, table, dcol, vcol) ==
    [i \in 1..Len(d[table].rows) |->
        [mes |-> month_expr(Cell(d, table, d[table].rows[i], dcol)),
         val |-> numeric_expr(Cell(d, table, d[table].rows[i], vcol)),
         row |-> d[table].rows[i]]]

\* the expressions e with the rows of conta and mensalidade they select from
ComLancamentos(d, e) ==
    IF ~e.ok THEN e
    ELSE [ok |-> TRUE, e |-> e,
          conta |-> Lancamentos(d, "conta", e.data_conta, e.valor_conta),
          mens  |-> Lancamentos(d, "mensalidade", e.data_mens, e.valor_mens)]

\* what every loss-ratio handler starts from: the 400 of
\* get_competencia_and_val_exprs, or the rows its queries read
Dados(d) == ComLancamentos(d, get_competencia_and_val_exprs(d))

\* a query that evaluates the month expression over a table fails when the
\* trailing CAST of a row raises
MesRaises(rows) == \E i \in 1..Len(rows) : rows[i].mes = Raise

\* the non-NULL months of a table
MesesDe(rows) == {rows[i].mes.s : i \in {j \in 1..Len(rows) : rows[j].mes.k = "txt"}}

\* the rows of month m
DoMes(rows, m) == {i \in 1..Len(rows) : rows[i].mes = Txt(m)}

\* SUM({expr}) ... WHERE {mes} = m, with no row counted as 0
SumMes(rows, m) == SumFn([i \in DoMes(rows, m) |-> rows[i].val])

RECURSIVE SortDesc(_)
\* ORDER BY mes DESC
SortDesc(S) ==
    IF S = {} THEN <<>>
    ELSE LET mx == CHOOSE x \in S : \A y \in S \ {x} : StrLess(y, x)
         IN  <<mx>> \o SortDesc(S \ {mx})

\* lst[:n]
Prefixo(lst, n) ==
    SubSeq(lst, 1, IF n < 0 THEN (IF Len(lst) + n < 0 THEN 0 ELSE Len(lst) + n)
                   ELSE IF n < Len(lst) THEN n ELSE Len(lst))

\* one row per month of meses, missing sums as 0
Joined(conta, mens, meses) ==
    [i \in 1..Len(meses) |->
        [mes     |-> meses[i],
         custo   |-> SumMes(conta, meses[i]),
         receita |-> SumMes(mens, meses[i])]]

\* custos FULL OUTER JOIN receitas USING (mes) ORDER BY mes DESC LIMIT n:
\* one row per month present in either table
JoinedDesc(conta, mens, n) ==
    Joined(conta, mens, Prefixo(SortDesc(MesesDe(conta) \cup MesesDe(mens)), n))

\* the 500 of a query over conta and mensalidade that raises
QueryFails(x) == MesRaises(x.conta) \/ MesRaises(x.mens)

\* lines 520-526: the response built from the fetched row
kpi_sin_ultima_row(rows) ==
    IF rows = <<>>
    THEN HTTPException(404, Detail("Sem dados para calcular sinistralidade.", {}, {}))
    ELSE Ok([competencia    |-> Txt(rows[1].mes),
             custo          |-> rows[1].custo,
             receita        |-> rows[1].receita,
             sinistralidade |-> sinistralidade(rows[1].custo, rows[1].receita),
             observacao     |-> IF rows[1].receita # 0 THEN Null
                                ELSE Txt("Receita igual a 0")])

\* lines 497-520: the query over the resolved expressions
kpi_sin_ultima_dados(x) ==
    IF ~x.ok THEN x.err
    ELSE IF QueryFails(x) THEN InternalError
    ELSE kpi_sin_ultima_row(JoinedDesc(x.conta, x.mens, 1))

\* GET /kpi/sinistralidade/ultima
kpi_sin_ultima(d) == kpi_sin_ultima_dados(Dados(d))

\* lines 563-567: one entry per fetched row, latest month first
Serie(rows) ==
    [i \in 1..Len(rows) |->
        [competencia    |-> Txt(rows[i].mes),
         custo          |-> rows[i].custo,
         receita        |-> rows[i].receita,
         sinistralidade |-> sinistralidade(rows[i].custo, rows[i].receita)]]

\* the defined ratios of a series
Definidas(serie) ==
    SelectSeq([i \in 1..Len(serie) |-> serie[i].sinistralidade], LAMBDA r : r # Null)

\* the mean of a non-empty sequence of ratios, None for an empty one
Media(sins) ==
    IF sins = <<>> THEN Null ELSE RatDiv(RatSum(sins), Div(Len(sins), 1))

\* list(reversed(serie))
Reversed(s) == [i \in 1..Len(s) |-> s[Len(s) + 1 - i]]

\* a mutation of kpi_sin_media_result: the mean of the per-month ratios of the
\* months with revenue is reported as the aggregate
kpi_sin_media_mean(serie, total_custo, total_receita) ==
    Ok([meses_considerados |-> Len(serie),
        media_sinistralidade_agregada |-> Media(Definidas(serie)),
        custo_total   |-> total_custo,
        receita_total |-> total_receita,
        serie |-> Reversed(serie)])

\* lines 568-570: the aggregate ratio of the totals, and the response
kpi_sin_media_result(serie, total_custo, total_receita) ==
    Ok([meses_considerados |-> Len(serie),
        media_sinistralidade_agregada |-> sinistralidade(total_custo, total_receita),
        custo_total   |-> total_custo,
        receita_total |-> total_receita,
        serie |-> Reversed(serie)])

\* lines 559-567: 404 without rows; the series and the running totals
kpi_sin_media_rows(rows) ==
    IF rows = <<>>
    THEN HTTPException(404,
            Detail("Sem dados para calcular a media de sinistralidade.", {}, {}))
    ELSE kpi_sin_media_result(Serie(rows),
                              SumSeq([i \in 1..Len(rows) |-> rows[i].custo]),
                              SumSeq([i \in 1..Len(rows) |-> rows[i].receita]))

\* lines 531-558: the query over the resolved expressions
kpi_sin_media_dados(x, meses) ==
    IF ~x.ok THEN x.err
    ELSE IF QueryFails(x) THEN InternalError
    ELSE kpi_sin_media_rows(JoinedDesc(x.conta, x.mens, meses))

\* GET /kpi/sinistralidade/media?meses=
kpi_sin_media(d, meses) == kpi_sin_media_dados(Dados(d), meses)

\* WITH c AS (SELECT SUM(..) FROM conta WHERE mes = ?), r AS (...) SELECT c.custo,
\* r.receita: the totals of one month, float(x or 0)
TotaisDoMes(x, m) ==
    [custo |-> SumMes(x.conta, m), receita |-> SumMes(x.mens, m)]

\* lines 586-588: the response built from the totals
kpi_sin_diferenca_totais(competencia, t) ==
    Ok([competencia    |-> Txt(competencia),
        custo          |-> t.custo,
        receita        |-> t.receita,
        diferenca      |-> t.receita - t.custo,
        sinistralidade |-> sinistralidade(t.custo, t.receita)])

\* lines 575-585: the query over the resolved expressions
kpi_sin_diferenca_dados(x, competencia) ==
    IF ~x.ok THEN x.err
    ELSE IF QueryFails(x) THEN InternalError
    ELSE kpi_sin_diferenca_totais(competencia, TotaisDoMes(x, competencia))

\* GET /kpi/sinistralidade/diferenca?competencia=
kpi_sin_diferenca(d, competencia) == kpi_sin_diferenca_dados(Dados(d), competencia)

\* datetime.strptime(s, "%Y-%m"): four digits, "-", and a month of one or two
\* digits (1[0-2]|0[1-9]|[1-9]); Null for the ValueError
PyStrptimeYM(s) ==
    IF /\ Len(s) \in {6, 7}
       /\ AllDigits(SubSeq(s, 1, 4))
       /\ s[5] = "-"
       /\ AllDigits(SubSeq(s, 6, Len(s)))
       /\ NumVal(SubSeq(s, 6, Len(s))) \in 1..12
       /\ NumVal(SubSeq(s, 1, 4)) >= 1
    THEN [y |-> NumVal(SubSeq(s, 1, 4)), m |-> NumVal(SubSeq(s, 6, Len(s)))]
    ELSE Null

\* the month i months before base: mo = base.month - i; while mo <= 0: y -= 1; mo += 12
MesAntes(base, i) ==
    IF base.m - i <= 0
    THEN MonthStr(base.y - 1, base.m - i + 12)
    ELSE MonthStr(base.y, base.m - i)

\* lines 625-628: the label of the relative variation
Variacao(var) ==
    IF RatLess(Div(5, 100), var) THEN "alta"
    ELSE IF RatLess(var, Div(-5, 100)) THEN "queda"
    ELSE "estabilidade"

\* lines 619-628: the label of the trend from the first to the last ratio
Comparar(ini, fimv) ==
    IF ini.num = 0 /\ fimv.num = 0 THEN "estabilidade"
    ELSE IF ini.num = 0 /\ RatLess(Div(0, 1), fimv) THEN "alta"
    ELSE IF ini.num = 0 THEN "alta"
    ELSE Variacao(RatDiv(RatSub(fimv, ini), ini))

\* the label of the trend between the first and the last defined ratio
Tendencia(vals) ==
    IF Len(vals) < 2 THEN "indefinida" ELSE Comparar(vals[1], vals[Len(vals)])

\* lines 612-614: the entry of one month
EntradaDoMes(m, t) ==
    [competencia    |-> Txt(m),
     custo          |-> t.custo,
     receita        |-> t.receita,
     sinistralidade |-> sinistralidade(t.custo, t.receita)]

\* lines 616-630: the trend of the defined ratios, and the response
kpi_sin_tendencia_out(out) ==
    Ok([serie |-> out, tendencia |-> Tendencia(Definidas(out)),
        regra |-> "compara 1o vs ultimo; variacao > 5% = alta/queda"])

\* lines 603-614: one query per month of the trimester
kpi_sin_tendencia_meses(x, meses) ==
    IF QueryFails(x) THEN InternalError
    ELSE kpi_sin_tendencia_out([i \in 1..3 |->
                                   EntradaDoMes(meses[i], TotaisDoMes(x, meses[i]))])

\* lines 594-601: the three months ending at fim
kpi_sin_tendencia_base(x, base) ==
    IF base = Null THEN InternalError
    ELSE kpi_sin_tendencia_meses(x, <<MesAntes(base, 2), MesAntes(base, 1),
                                      MesAntes(base, 0)>>)

\* line 593: the resolved expressions
kpi_sin_tendencia_dados(x, fim) ==
    IF ~x.ok THEN x.err ELSE kpi_sin_tendencia_base(x, PyStrptimeYM(fim))

\* GET /kpi/sinistralidade/tendencia_trimestre?fim=
kpi_sin_tendencia_trimestre(d, fim) == kpi_sin_tendencia_dados(Dados(d), fim)

----------------------------------------------------------------------------
\* Loss ratio by product, age bracket, city, and for active beneficiaries

\* {"conta_prod", "mens_prod", "benef_prod"}: the product column of each table
get_produto_cols(d) ==
    [conta_prod |-> IF table_exists(d, "conta")
                    THEN find_col(d, "conta", CAND_PRODUTO) ELSE NoneCol,
     mens_prod  |-> IF table_exists(d, "mensalidade")
                    THEN find_col(d, "mensalidade", CAND_PRODUTO) ELSE NoneCol,
     benef_prod |-> IF table_exists(d, "beneficiario")
                    THEN find_col(d, "beneficiario", CAND_PRODUTO) ELSE NoneCol]

\* the beneficiary-id column of each table
get_benef_keys(d) ==
    [conta_benef |-> IF table_exists(d, "conta")
                     THEN find_col(d, "conta", CAND_ID_BENEF) ELSE NoneCol,
     mens_benef  |-> IF table_exists(d, "mensalidade")
                     THEN find_col(d, "mensalidade", CAND_ID_BENEF) ELSE NoneCol,
     benef_key   |-> IF table_exists(d, "beneficiario")
                     THEN find_col(d, "beneficiario", CAND_ID_BENEF) ELSE NoneCol]

get_dt_nasc(d) ==
    IF table_exists(d, "beneficiario")
    THEN find_col(d, "beneficiario", CAND_DT_NASC) ELSE NoneCol

get_status_col(d) ==
    IF ~table_exists(d, "beneficiario") THEN NoneCol
    ELSE find_col(d, "beneficiario", CAND_STATUS_BENEF)

\* upper(col) LIKE '%ATIV%' OR col IN ('1','S','SIM','s','sim','true','TRUE','t','T');
\* NULL is not active
status_ativo_clause(c) ==
    /\ c.k = "txt"
    /\ \/ Contains(upper(c.s), <<"A","T","I","V">>)
       \/ c.s \in { <<"1">>, <<"S">>, <<"S","I","M">>, <<"s">>, <<"s","i","m">>,
                    <<"t","r","u","e">>, <<"T","R","U","E">>, <<"t">>, <<"T">> }

\* a = b in an ON clause: NULL equals nothing
SqlEq(a, b) == a # Null /\ a = b

\* SELECT {table}.{col}, {valor} FROM {table} WHERE {mes} = comp: the key,
\* the amount and the identity of each selected row
PorColuna(d, table, rows, col, comp) ==
    {[k |-> Cell(d, table, rows[i].row, col), v |-> rows[i].val, i |-> <<i, 0>>] :
        i \in DoMes(rows, comp)}

\* table JOIN beneficiario b ON b.{bk} = table.{fk} WHERE {mes} = comp: the
\* pairs (row of the table, row of beneficiario) with equal, non-NULL keys
JoinMes(d, table, rows, fk, bk, comp) ==
    {p \in DoMes(rows, comp) \X (1..Len(d["beneficiario"].rows)) :
        SqlEq(Cell(d, table, rows[p[1]].row, fk),
              Cell(d, "beneficiario", d["beneficiario"].rows[p[2]], bk))}

\* SELECT b.{bcol}, {valor} over a set of joined pairs
ComBenef(d, rows, bcol, pairs) ==
    {[k |-> Cell(d, "beneficiario", d["beneficiario"].rows[p[2]], bcol),
      v |-> rows[p[1]].val, i |-> p] : p \in pairs}

\* SELECT b.{bcol}, {valor} FROM {table} JOIN beneficiario b ON ... WHERE {mes} = comp
PorBenef(d, table, rows, fk, bk, bcol, comp) ==
    ComBenef(d, rows, bcol, JoinMes(d, table, rows, fk, bk, comp))

\* SELECT k, SUM(v) ... GROUP BY 1: the sum of each key that has a row
GroupSum(S) ==
    [g \in {x.k : x \in S} |-> SumFn([x \in {y \in S : y.k = g} |-> x.v])]

\* str(value) of a grouping cell
PyStr(c) == IF c = Null THEN <<"N","o","n","e">> ELSE c.s

\* a dict built from rows under the key chave[g] of each group g: it keeps one
\* row of those that share a key
Mapa(groups, chave) ==
    [s \in {chave[g] : g \in DOMAIN groups} |->
        groups[CHOOSE g \in DOMAIN groups : chave[g] = s]]

\* {str(r[0]): float(r[1] or 0) for r in rows}
MapaStr(groups) == Mapa(groups, [g \in DOMAIN groups |-> PyStr(g)])

\* the value of a dict under a key, with a default
DictGet(m, key, default) == IF key \in DOMAIN m THEN m[key] ELSE default

\* the arrangements of the elements of a set
Perms(S) ==
    {f \in [1..Cardinality(S) -> S] : \A i, j \in 1..Cardinality(S) : i # j => f[i] # f[j]}

\* the orders a stable descending sort can leave the elements of a set in,
\* when the set is iterated (or the rows are fetched) in an arbitrary order:
\* every arrangement in which no element comes before one of a greater key
Arranjos(S, key) ==
    {f \in Perms(S) : \A i, j \in 1..Len(f) : i < j => ~RatLess(key[f[i]], key[f[j]])}

\* x["sinistralidade"] if x["sinistralidade"] is not None else -1
ChaveSin(item) ==
    IF item.sinistralidade = Null THEN Div(-1, 1) ELSE item.sinistralidade

\* {nome: p, "custo": custo, "receita": receita, "sinistralidade": sin}, nome
\* being "produto", "cidade" or "faixa"
Item(nome, p, custo, receita) ==
    (nome :> p) @@ [custo |-> custo, receita |-> receita,
                    sinistralidade |-> sinistralidade(custo, receita)]

\* one item per key of either dict, with its ratio
ItensDe(nome, mapa_c, mapa_r) ==
    {Item(nome, p, DictGet(mapa_c, p, 0), DictGet(mapa_r, p, 0)) :
        p \in DOMAIN mapa_c \cup DOMAIN mapa_r}

\* items.sort(key=ChaveSin, reverse=True); items[:top]: the responses the
\* handler can give
RankingSin(comp, itens, top) ==
    {Ok([competencia |-> Txt(comp), itens |-> Prefixo(f, top)]) :
        f \in Arranjos(itens, [x \in itens |-> ChaveSin(x)])}

\* lines 643-659: the costs per product, from conta's own product column or
\* from the beneficiary's
CustosPorProduto(d, x, prods, keys, comp) ==
    IF prods.conta_prod # NoneCol
    THEN GroupSum(PorColuna(d, "conta", x.conta, prods.conta_prod, comp))
    ELSE GroupSum(PorBenef(d, "conta", x.conta, keys.conta_benef, keys.benef_key,
                           prods.benef_prod, comp))

\* lines 663-679: the revenue per product
ReceitasPorProduto(d, x, prods, keys, comp) ==
    IF prods.mens_prod # NoneCol
    THEN GroupSum(PorColuna(d, "mensalidade", x.mens, prods.mens_prod, comp))
    ELSE GroupSum(PorBenef(d, "mensalidade", x.mens, keys.mens_benef, keys.benef_key,
                           prods.benef_prod, comp))

\* line 682: the items when revenue cannot be split by product
SemReceita(custos) ==
    {[produto |-> g, custo |-> custos[g], receita |-> Null, sinistralidade |-> Null] :
        g \in DOMAIN custos}

\* lines 681-685: out.sort(key=custo, reverse=True); out[:top]
kpi_sin_por_produto_sem_rateio(competencia, top, out, rec_total) ==
    {Ok([competencia   |-> Txt(competencia),
         observacao    |-> Txt("Nao ha coluna de produto na mensalidade/beneficiario"),
         receita_total |-> rec_total,
         itens         |-> Prefixo(f, top)]) :
        f \in Arranjos(out, [y \in out |-> Div(y.custo, 1)])}

\* lines 639-697
kpi_sin_por_produto_dados(d, x, prods, keys, competencia, top) ==
    IF ~x.ok THEN {x.err}
    ELSE IF prods.conta_prod = NoneCol /\ prods.mens_prod = NoneCol
            /\ prods.benef_prod = NoneCol
    THEN {HTTPException(400,
            Detail("Nao encontrei coluna de produto em conta/mensalidade/beneficiario.",
                   {"conta", "mensalidade", "beneficiario"}, {}))}
    ELSE IF prods.conta_prod = NoneCol
            /\ ~(prods.benef_prod # NoneCol /\ keys.conta_benef # NoneCol
                 /\ keys.benef_key # NoneCol)
    THEN {HTTPException(400,
            Detail("Impossivel obter custos por produto (faltam colunas).", {}, {}))}
    ELSE IF MesRaises(x.conta) THEN {InternalError}
    ELSE IF MesRaises(x.mens) THEN {InternalError}
    ELSE IF prods.mens_prod = NoneCol
            /\ ~(prods.benef_prod # NoneCol /\ keys.mens_benef # NoneCol
                 /\ keys.benef_key # NoneCol)
    THEN kpi_sin_por_produto_sem_rateio(competencia, top,
            SemReceita(CustosPorProduto(d, x, prods, keys, competencia)),
            SumMes(x.mens, competencia))
    ELSE RankingSin(competencia,
            ItensDe("produto", MapaStr(CustosPorProduto(d, x, prods, keys, competencia)),
                    MapaStr(ReceitasPorProduto(d, x, prods, keys, competencia))), top)

\* GET /kpi/sinistralidade/por_produto?competencia=&top= : the set of
\* responses the handler can give
kpi_sin_por_produto(d, competencia, top) ==
    kpi_sin_por_produto_dados(d, Dados(d), get_produto_cols(d), get_benef_keys(d),
                              competencia, top)

\* upper(b.{col_cidade})
UpperCell(c) == IF c = Null THEN Null ELSE Txt(upper(c.s))

\* the rows with their key in capitals
EmMaiusculas(S) == {[k |-> UpperCell(y.k), v |-> y.v, i |-> y.i] : y \in S}

\* r[0] or "SEM_CIDADE"
OuSemCidade(c) ==
    IF c = Null \/ c.s = <<>> THEN <<"S","E","M","_","C","I","D","A","D","E">> ELSE c.s

\* {r[0] or "SEM_CIDADE": float(r[1] or 0) for r in rows}
MapaCidade(groups) == Mapa(groups, [g \in DOMAIN groups |-> OuSemCidade(g)])

\* lines 776-804
kpi_sin_por_cidade_dados(d, x, keys, col_cidade, competencia, top) ==
    IF ~x.ok THEN {x.err}
    ELSE IF keys.conta_benef = NoneCol \/ keys.mens_benef = NoneCol
            \/ keys.benef_key = NoneCol \/ col_cidade = NoneCol
    THEN {HTTPException(400,
            Detail("Necessario id_benef em conta/mensalidade/beneficiario e coluna de cidade em beneficiario.",
                   {"conta", "mensalidade", "beneficiario"}, {}))}
    ELSE IF MesRaises(x.conta) THEN {InternalError}
    ELSE IF MesRaises(x.mens) THEN {InternalError}
    ELSE RankingSin(competencia,
            ItensDe("cidade", MapaCidade(GroupSum(EmMaiusculas(
                        PorBenef(d, "conta", x.conta, keys.conta_benef, keys.benef_key,
                                 col_cidade, competencia)))),
                    MapaCidade(GroupSum(EmMaiusculas(
                        PorBenef(d, "mensalidade", x.mens, keys.mens_benef, keys.benef_key,
                                 col_cidade, competencia))))), top)

\* GET /kpi/sinistralidade/por_cidade?competencia=&top= : the set of
\* responses the handler can give
kpi_sin_por_cidade(d, competencia, top) ==
    IF ~table_exists(d, "beneficiario")
    THEN {HTTPException(400, Detail("Tabela 'beneficiario' nao existe.",
                                    {"beneficiario"}, {}))}
    ELSE kpi_sin_por_cidade_dados(d, Dados(d), get_benef_keys(d),
                                  find_col(d, "beneficiario", CAND_CIDADE), competencia, top)

\* SELECT COALESCE(SUM({valor}), 0) ... WHERE {ativo_clause}: the amounts of
\* the joined rows whose status cell is active
SomaAtivos(S) ==
    SumFn([y \in {z \in S : status_ativo_clause(z.k)} |-> y.v])

\* lines 839-840
kpi_sin_ativos_result(competencia, custo, receita) ==
    Ok([competencia           |-> Txt(competencia),
        custo_ativos          |-> custo,
        receita_ativos        |-> receita,
        sinistralidade_ativos |-> sinistralidade(custo, receita)])

\* a mutation of kpi_sin_ativos_dados: when the status column is not found,
\* every beneficiary counts as active
kpi_sin_ativos_dados_todos(d, x, keys, status_col, competencia) ==
    IF ~x.ok THEN x.err
    ELSE IF keys.conta_benef = NoneCol \/ keys.mens_benef = NoneCol
            \/ keys.benef_key = NoneCol
    THEN HTTPException(400,
            Detail("Nao encontrei coluna de status em 'beneficiario' ou chaves para join.",
                   {"beneficiario"}, {}))
    ELSE IF QueryFails(x) THEN InternalError
    ELSE IF status_col = NoneCol
    THEN kpi_sin_ativos_result(competencia,
            SumFn([y \in PorBenef(d, "conta", x.conta, keys.conta_benef, keys.benef_key,
                                  keys.benef_key, competencia) |-> y.v]),
            SumFn([y \in PorBenef(d, "mensalidade", x.mens, keys.mens_benef,
                                  keys.benef_key, keys.benef_key, competencia) |-> y.v]))
    ELSE kpi_sin_ativos_result(competencia,
            SomaAtivos(PorBenef(d, "conta", x.conta, keys.conta_benef, keys.benef_key,
                                status_col, competencia)),
            SomaAtivos(PorBenef(d, "mensalidade", x.mens, keys.mens_benef, keys.benef_key,
                                status_col, competencia)))

\* lines 816-838
kpi_sin_ativos_dados(d, x, keys, status_col, competencia) ==
    IF ~x.ok THEN x.err
    ELSE IF keys.conta_benef = NoneCol \/ keys.mens_benef = NoneCol
            \/ keys.benef_key = NoneCol \/ status_col = NoneCol
    THEN HTTPException(400,
            Detail("Nao encontrei coluna de status em 'beneficiario' ou chaves para join.",
                   {"beneficiario"}, {}))
    ELSE IF QueryFails(x) THEN InternalError
    ELSE kpi_sin_ativos_result(competencia,
            SomaAtivos(PorBenef(d, "conta", x.conta, keys.conta_benef, keys.benef_key,
                                status_col, competencia)),
            SomaAtivos(PorBenef(d, "mensalidade", x.mens, keys.mens_benef, keys.benef_key,
                                status_col, competencia)))

\* GET /kpi/sinistralidade/ativos?competencia=
kpi_sin_ativos(d, competencia) ==
    kpi_sin_ativos_dados(d, Dados(d), get_benef_keys(d), get_status_col(d), competencia)

\* s.split(sep)
SplitBy(s, sep) ==
    LET cuts == {0, Len(s) + 1} \cup {i \in 1..Len(s) : s[i] = sep}
        RECURSIVE From(_)
        From(a) ==
            LET b == MinOf({c \in cuts : c > a})
            IN  <<SubSeq(s, a + 1, b - 1)>> \o (IF b = Len(s) + 1 THEN <<>> ELSE From(b))
    IN  From(0)

RECURSIVE StripSp(_)
\* s.strip() of blanks
StripSp(s) ==
    IF s # <<>> /\ Head(s) = " " THEN StripSp(Tail(s))
    ELSE IF s # <<>> /\ s[Len(s)] = " " THEN StripSp(SubSeq(s, 1, Len(s) - 1))
    ELSE s

\* the integer of a stripped text: an optional sign and decimal digits
IntOf(u) ==
    IF u # <<>> /\ u[1] = "-"
    THEN (IF Len(u) > 1 /\ AllDigits(Tail(u)) THEN Num(0 - NumVal(Tail(u))) ELSE Null)
    ELSE IF u # <<>> /\ u[1] = "+"
    THEN (IF Len(u) > 1 /\ AllDigits(Tail(u)) THEN Num(NumVal(Tail(u))) ELSE Null)
    ELSE IF u # <<>> /\ AllDigits(u) THEN Num(NumVal(u)) ELSE Null

\* int(s): blanks around, an optional sign, decimal digits; Null for the
\* ValueError
PyInt(s) == IntOf(StripSp(s))

\* (a, b, label), or Null when a bound is no integer
Faixa(a, b, label) ==
    IF a = Null \/ b = Null THEN Null ELSE [a |-> a.n, b |-> b, label |-> label]

\* (n, None, label), or Null when n is no integer
FaixaAberta(n, label) ==
    IF n = Null THEN Null ELSE [a |-> n.n, b |-> Null, label |-> label]

\* a, b = part.split("-"): Null for the ValueError of the unpacking
Limites(part, ab) ==
    IF Len(ab) # 2 THEN Null ELSE Faixa(PyInt(ab[1]), PyInt(ab[2]), part)

\* one part of the bracket spec as (lower, upper or Null, label), or Null for
\* the ValueError of int() or of the unpacking of split("-")
ParseBin(part) ==
    IF part[Len(part)] = "+"
    THEN FaixaAberta(PyInt(SubSeq(part, 1, Len(part) - 1)), part)
    ELSE Limites(part, SplitBy(part, "-"))

\* the stripped, non-empty parts
Partes(parts) ==
    SelectSeq([i \in 1..Len(parts) |-> StripSp(parts[i])], LAMBDA q : q # <<>>)

\* the brackets of the parts; ok is FALSE when one of them raises
Faixas(fs) ==
    IF \E i \in 1..Len(fs) : fs[i] = Null THEN [ok |-> FALSE, faixas |-> <<>>]
    ELSE [ok |-> TRUE, faixas |-> fs]

\* parse_bins(bins): the brackets in declared order; ok is FALSE for a
\* ValueError
parse_bins(bins) ==
    Faixas([i \in 1..Len(Partes(SplitBy(bins, ","))) |->
               ParseBin(Partes(SplitBy(bins, ","))[i])])

\* a mutation of FaixaDe: the upper bound of a bracket is exclusive
FaixaDe_exclusive(faixas, idade) ==
    LET bounded == {i \in 1..Len(faixas) :
                      faixas[i].b # Null /\ idade # Null
                      /\ idade.n >= faixas[i].a /\ idade.n < faixas[i].b.n}
        open    == {i \in 1..Len(faixas) :
                      faixas[i].b = Null /\ idade # Null /\ idade.n >= faixas[i].a}
    IN  IF bounded # {} THEN faixas[MinOf(bounded)].label
        ELSE IF open # {} THEN faixas[MinOf(open)].label
        ELSE <<"O","U","T","R","O","S">>

\* the CASE of the bracket queries: the WHEN clauses of the bounded brackets
\* in declared order, then those of the open brackets, ELSE 'OUTROS'; a NULL
\* age satisfies no WHEN
FaixaDe(faixas, idade) ==
    LET bounded == {i \in 1..Len(faixas) :
                      faixas[i].b # Null /\ idade # Null
                      /\ idade.n >= faixas[i].a /\ idade.n <= faixas[i].b.n}
        open    == {i \in 1..Len(faixas) :
                      faixas[i].b = Null /\ idade # Null /\ idade.n >= faixas[i].a}
    IN  IF bounded # {} THEN faixas[MinOf(bounded)].label
        ELSE IF open # {} THEN faixas[MinOf(open)].label
        ELSE <<"O","U","T","R","O","S">>

\* date_diff('year', dt, ref): the difference of the calendar years; NULL and
\* the conversion error pass through
AnosAte(dt, ref) == IF dt.k = "date" THEN Num(ref.y - dt.y) ELSE dt

\* DATE_DIFF('year', CAST(b.{dt_nasc} AS DATE), DATE 'YYYY-MM-01'): NULL for a
\* NULL birth date, Raise when the CAST fails
IdadeEm(nasc, ref) == AnosAte(CastDate(nasc), ref)

\* the joined rows with the age at ref in place of the birth date
ComIdade(S, ref) == {[k |-> IdadeEm(y.k, ref), v |-> y.v, i |-> y.i] : y \in S}

\* a bracket query fails when the CAST of a joined row raises
IdadeRaises(S) == \E y \in S : y.k = Raise

\* the rows with the label of their bracket as key
EmFaixas(S, faixas) == {[k |-> Txt(FaixaDe(faixas, y.k)), v |-> y.v, i |-> y.i] : y \in S}

\* [lbl for _, _, lbl in faixas]
Labels(faixas) == [i \in 1..Len(faixas) |-> faixas[i].label]

\* order.index(label)
Index(order, label) == MinOf({i \in 1..Len(order) : order[i] = label})

\* itens.sort(key=order.index): the items in the order of their labels
Ordenados(itens, order) ==
    CHOOSE f \in Perms(itens) :
        \A i, j \in 1..Len(f) : i < j => Index(order, f[i].faixa) < Index(order, f[j].faixa)

\* lines 755-765
kpi_sin_por_faixa_itens(competencia, faixas, itens) ==
    Ok([competencia |-> Txt(competencia),
        bins  |-> Labels(faixas),
        itens |-> Ordenados(itens, Labels(faixas) \o << <<"O","U","T","R","O","S">> >>)])

\* lines 738-753: the two bracket queries
kpi_sin_por_faixa_queries(competencia, faixas, x, jc, jr) ==
    IF MesRaises(x.conta) THEN InternalError
    ELSE IF IdadeRaises(jc) THEN InternalError
    ELSE IF MesRaises(x.mens) THEN InternalError
    ELSE IF IdadeRaises(jr) THEN InternalError
    ELSE kpi_sin_por_faixa_itens(competencia, faixas,
            ItensDe("faixa", MapaStr(GroupSum(EmFaixas(jc, faixas))),
                    MapaStr(GroupSum(EmFaixas(jr, faixas)))))

\* lines 720-737: the reference date, the brackets, the rows joined to their
\* beneficiary with the age at the reference date
kpi_sin_por_faixa_ref(d, x, keys, dt_nasc, competencia, ref, faixas) ==
    IF ref = Null THEN InternalError
    ELSE IF ~faixas.ok THEN InternalError
    ELSE IF faixas.faixas = <<>> THEN InternalError
    ELSE kpi_sin_por_faixa_queries(competencia, faixas.faixas, x,
            ComIdade(PorBenef(d, "conta", x.conta, keys.conta_benef, keys.benef_key,
                              dt_nasc, competencia), ref),
            ComIdade(PorBenef(d, "mensalidade", x.mens, keys.mens_benef, keys.benef_key,
                              dt_nasc, competencia), ref))

\* lines 714-718
kpi_sin_por_faixa_dados(d, x, keys, dt_nasc, competencia, bins) ==
    IF ~x.ok THEN x.err
    ELSE IF keys.conta_benef = NoneCol \/ keys.mens_benef = NoneCol
            \/ keys.benef_key = NoneCol \/ dt_nasc = NoneCol
    THEN HTTPException(400,
            Detail("Para faixas etarias, e necessario id_benef em conta/mensalidade/beneficiario e dt_nascimento em beneficiario.",
                   {"conta", "mensalidade", "beneficiario"}, {CAND_DT_NASC[1]}))
    ELSE kpi_sin_por_faixa_ref(d, x, keys, dt_nasc, competencia,
                               PyStrptimeYM(competencia), parse_bins(bins))

\* GET /kpi/sinistralidade/por_faixa?competencia=&bins=
kpi_sin_por_faixa(d, competencia, bins) ==
    kpi_sin_por_faixa_dados(d, Dados(d), get_benef_keys(d), get_dt_nasc(d),
                            competencia, bins)

----------------------------------------------------------------------------
\* Provider rankings (prestador)

\* CAST(col AS DOUBLE) of a VARCHAR: NULL stays NULL, text that is no number
\* raises a conversion error
CAST_DOUBLE(c) == IF c = Null THEN Null ELSE OrRaise(TRY_CAST_DOUBLE(c))

\* the aggregated cell of a row: CAST(a.{col_qt} AS DOUBLE) under SUM, or 1
\* under COUNT(*) (in hundredths, like every amount)
Agregado(d, row, col_qt) ==
    IF col_qt = NoneCol THEN Num(100)
    ELSE CAST_DOUBLE(Cell(d, "autorizacao", row, col_qt))

\* the rows of autorizacao as the ranking query sees them
Autorizacoes(d, dt_aut, col_qt) ==
    [i \in 1..Len(d["autorizacao"].rows) |->
        [mes |-> month_expr(Cell(d, "autorizacao", d["autorizacao"].rows[i], dt_aut)),
         val |-> Agregado(d, d["autorizacao"].rows[i], col_qt),
         row |-> d["autorizacao"].rows[i]]]

\* the rows of conta as the ranking query sees them: SUM({custo_expr})
Custos(rows) ==
    [i \in 1..Len(rows) |-> [mes |-> rows[i].mes, val |-> Num(rows[i].val), row |-> rows[i].row]]

\* lines 406-411 / 455-460: the join column and the name column of prestador;
\* the name is selected only when the join is made
get_prest_cols(d) ==
    IF table_exists(d, "prestador")
    THEN [id_prest_tab |-> find_col(d, "prestador", CAND_ID_PREST_TAB),
          nome_col     |-> find_col(d, "prestador", CAND_NM_PREST)]
    ELSE [id_prest_tab |-> NoneCol, nome_col |-> NoneCol]

\* join_prest and nome_col
ComNome(pc) == pc.id_prest_tab # NoneCol /\ pc.nome_col # NoneCol

\* the pairs (row of t, row of prestador) the ON clause matches
PrestMatches(d, table, rows, idx, id_prest, id_prest_tab) ==
    IF id_prest_tab = NoneCol THEN {}
    ELSE {p \in idx \X (1..Len(d["prestador"].rows)) :
            SqlEq(Cell(d, table, rows[p[1]].row, id_prest),
                  Cell(d, "prestador", d["prestador"].rows[p[2]], id_prest_tab))}

\* the matched pairs, and (i, 0) for each row without a provider row
WithUnmatched(idx, M) == M \cup {<<i, 0>> : i \in idx \ {p[1] : p \in M}}

\* FROM t [LEFT JOIN prestador p ON p.{id_prest_tab} = t.{id_prest}] over the
\* rows idx of t
LeftJoinPrest(d, table, rows, idx, id_prest, id_prest_tab) ==
    WithUnmatched(idx, PrestMatches(d, table, rows, idx, id_prest, id_prest_tab))

\* p.{nome_col} of a joined pair
NomeDe(d, pc, p) ==
    IF ~ComNome(pc) \/ p[2] = 0 THEN Null
    ELSE Cell(d, "prestador", d["prestador"].rows[p[2]], pc.nome_col)

\* the selected cells of each joined pair
RankRows(d, table, rows, pairs, id_prest, pc) ==
    {[id   |-> Cell(d, table, rows[p[1]].row, id_prest),
      nome |-> NomeDe(d, pc, p),
      v    |-> rows[p[1]].val,
      i    |-> p] : p \in pairs}

\* GROUP BY 1 [, 3] with SUM / COUNT: one row per provider id, or per
\* (id, name); NULL cells do not count
RankGroups(S) ==
    {[id_prestador |-> g[1], nome |-> g[2],
      score |-> SumFn([y \in {z \in S : <<z.id, z.nome>> = g /\ z.v # Null} |-> y.v.n])] :
        g \in {<<y.id, y.nome>> : y \in S}}

\* ORDER BY 2 DESC LIMIT n: the engine may leave rows of equal score in any
\* order, so a set of lists
TopN(rows, n) ==
    {Prefixo(f, n) : f \in Arranjos(rows, [r \in rows |-> Div(r.score, 1)])}

\* the grouped rows of the ranking query of a table
Ranking(d, table, rows, idx, id_prest, pc) ==
    RankGroups(RankRows(d, table, rows,
                        LeftJoinPrest(d, table, rows, idx, id_prest, pc.id_prest_tab),
                        id_prest, pc))

\* lines 427-431: one entry per fetched row
TopItem(r, comNome) ==
    IF comNome
    THEN [id_prestador |-> r.id_prestador, nome |-> r.nome, score |-> r.score]
    ELSE [id_prestador |-> r.id_prestador, score |-> r.score]

\* lines 413-432
kpi_prestador_top_rows(d, rows, id_prest, pc, competencia, limite) ==
    IF MesRaises(rows) THEN {InternalError}
    ELSE IF \E i \in DoMes(rows, competencia) : rows[i].val = Raise THEN {InternalError}
    ELSE {Ok([competencia |-> Txt(competencia),
              top |-> [i \in 1..Len(t) |-> TopItem(t[i], ComNome(pc))]]) :
            t \in TopN(Ranking(d, "autorizacao", rows, DoMes(rows, competencia),
                               id_prest, pc), limite)}

\* lines 399-404
kpi_prestador_top_cols(d, id_prest, dt_aut, col_qt, competencia, limite) ==
    IF id_prest = NoneCol \/ dt_aut = NoneCol
    THEN {HTTPException(400,
            Detail("Colunas 'id_prestador' e/ou 'dt_autorizacao' ausentes em 'autorizacao'.",
                   {"autorizacao"}, {CAND_ID_PREST_AUT[1], dt_autorizacao}))}
    ELSE kpi_prestador_top_rows(d, Autorizacoes(d, dt_aut, col_qt), id_prest,
                                get_prest_cols(d), competencia, limite)

\* GET /kpi/prestador/top?competencia=&limite= : the set of responses the
\* handler can give (limite >= 0)
kpi_prestador_top(d, competencia, limite) ==
    IF ~table_exists(d, "autorizacao")
    THEN {HTTPException(400, Detail("Tabela 'autorizacao' nao existe.",
                                    {"autorizacao"}, {}))}
    ELSE kpi_prestador_top_cols(d, find_col(d, "autorizacao", CAND_ID_PREST_AUT),
                                find_col(d, "autorizacao", <<dt_autorizacao>>),
                                find_col(d, "autorizacao", <<qt_autorizada>>),
                                competencia, limite)

\* lines 475-488: one entry per fetched row
ImpactoItem(r, comNome, receita_total) ==
    IF comNome
    THEN [id_prestador |-> r.id_prestador, nome |-> r.nome, custo |-> r.score,
          sinistralidade_relativa |-> sinistralidade(r.score, receita_total)]
    ELSE [id_prestador |-> r.id_prestador, custo |-> r.score,
          sinistralidade_relativa |-> sinistralidade(r.score, receita_total)]

\* lines 462-489
kpi_prestador_impacto_rows(d, rows, id_prest_conta, pc, receita_total, competencia, top) ==
    {Ok([competencia |-> Txt(competencia),
         receita_total_mes |-> receita_total,
         top |-> [i \in 1..Len(t) |-> ImpactoItem(t[i], ComNome(pc), receita_total)]]) :
        t \in TopN(Ranking(d, "conta", rows, DoMes(rows, competencia),
                           id_prest_conta, pc), top)}

\* lines 442-461
kpi_prestador_impacto_dados(d, x, competencia, top, id_prest_conta) ==
    IF ~x.ok THEN {x.err}
    ELSE IF id_prest_conta = NoneCol
    THEN {HTTPException(400,
            Detail("Nao encontrei coluna de prestador em 'conta' (ex.: id_prestador_pagamento).",
                   {"conta"}, {CAND_ID_PREST_CONTA[1]}))}
    ELSE IF MesRaises(x.mens) THEN {InternalError}
    ELSE IF MesRaises(x.conta) THEN {InternalError}
    ELSE kpi_prestador_impacto_rows(d, Custos(x.conta), id_prest_conta, get_prest_cols(d),
                                    SumMes(x.mens, competencia), competencia, top)

\* GET /kpi/prestador/impacto?competencia=&top= : the set of responses the
\* handler can give (top >= 0)
kpi_prestador_impacto(d, competencia, top) ==
    IF ~table_exists(d, "conta")
    THEN {HTTPException(400, Detail("Tabela 'conta' nao existe.", {"conta"}, {}))}
    ELSE kpi_prestador_impacto_dados(d, Dados(d), competencia, top,
                                     find_col(d, "conta", CAND_ID_PREST_CONTA))

----------------------------------------------------------------------------
\* Utilization (utilizacao)

\* a supplied (truthy) query parameter
Supplied(v) == v # Null /\ v.s # <<>>

\* one text filter of add_benef_filters: the column its clause is on, NoneCol
\* when the filter is not supplied or finds no column (no clause is added)
FiltroCol(d, valor, candidates) ==
    IF Supplied(valor) THEN find_col(d, "beneficiario", candidates) ELSE NoneCol

\* lines 224-254: the column of the clause each filter adds, NoneCol for a
\* filter that adds none
add_benef_filters(d, filtros) ==
    [uf     |-> FiltroCol(d, filtros.uf, CAND_UF),
     cidade |-> FiltroCol(d, filtros.cidade, CAND_CIDADE),
     sexo   |-> FiltroCol(d, filtros.sexo, CAND_SEXO),
     faixa  |-> FiltroCol(d, filtros.faixa, CAND_DT_NASC)]

\* the bounds split("-") gives: both integers, else Null (ValueError)
FaixaEntre(ab) ==
    IF Len(ab) # 2 THEN Null
    ELSE IF PyInt(ab[1]) = Null \/ PyInt(ab[2]) = Null THEN Null
    ELSE [min |-> PyInt(ab[1]).n, max |-> PyInt(ab[2])]

\* the bound of "n+": an integer, else Null (ValueError)
FaixaDesde(n) == IF n = Null THEN Null ELSE [min |-> n.n, max |-> Null]

\* lines 245-253 on the stripped text
FaixaLimites(f) ==
    IF f # <<>> /\ f[Len(f)] = "+" THEN FaixaDesde(PyInt(SubSeq(f, 1, Len(f) - 1)))
    ELSE FaixaEntre(SplitBy(f, "-"))

\* the bounds of the age filter "a+" / "a-b"; Null for the ValueError of int()
\* or of the unpacking of split("-")
FaixaFiltro(faixa) == FaixaLimites(StripSp(faixa))

\* upper(b.{col}) = upper(?) on one row; TRUE when the clause was not added
FiltroTexto(d, row, col, valor) ==
    IF col = NoneCol THEN TRUE
    ELSE /\ Cell(d, "beneficiario", row, col).k = "txt"
         /\ upper(Cell(d, "beneficiario", row, col).s) = upper(valor.s)

\* idade >= ? / idade BETWEEN ? AND ? ; a NULL age satisfies no bound
IdadeNaFaixa(idade, lim) ==
    /\ idade.k = "num"
    /\ idade.n >= lim.min
    /\ lim.max # Null => idade.n <= lim.max.n

\* date_diff('year', CAST(b.{col_nasc} AS DATE), CURRENT_DATE) within the
\* bounds: the age counts calendar years up to the day the request runs
FiltroFaixa(d, row, col_nasc, faixa, hoje) ==
    IF col_nasc = NoneCol THEN TRUE
    ELSE IdadeNaFaixa(IdadeEm(Cell(d, "beneficiario", row, col_nasc), hoje),
                      FaixaFiltro(faixa.s))

\* the clauses of add_benef_filters on one beneficiary row
WhereBenef(d, row, w, filtros, hoje) ==
    /\ FiltroTexto(d, row, w.uf, filtros.uf)
    /\ FiltroTexto(d, row, w.cidade, filtros.cidade)
    /\ FiltroTexto(d, row, w.sexo, filtros.sexo)
    /\ FiltroFaixa(d, row, w.faixa, filtros.faixa, hoje)

\* line 357: {k: v for k, v in {...}.items() if v}, the names of the supplied
\* filters (each is reported with the value supplied)
filtros_aplicados(filtros) ==
    {k \in {"produto", "uf", "cidade", "sexo", "faixa"} : Supplied(filtros[k])}

\* line 278: find_col(...) or "id_beneficiario"
OrIdBeneficiario(found) == IF found = NoneCol THEN id_beneficiario ELSE found

\* lines 284-291: the product join, made when the filter is supplied and both
\* columns of conta are found
ProdutoCols(d) ==
    [col_prod        |-> find_col(d, "conta", CAND_PRODUTO),
     col_benef_conta |-> find_col(d, "conta", CAND_ID_BENEF)]

NoJoin == [col_prod |-> NoneCol, col_benef_conta |-> NoneCol]

join_conta(d, produto) ==
    IF Supplied(produto) /\ table_exists(d, "conta") THEN ProdutoCols(d) ELSE NoJoin

Joins(jc) == jc.col_prod # NoneCol /\ jc.col_benef_conta # NoneCol

\* LEFT JOIN conta c ON c.{col_benef_conta} = b.{id_benef_ben}
\* WHERE upper(c.{col_prod}) = upper(?): the rows of conta kept for b
ContasDe(d, jc, b_id, produto) ==
    {k \in 1..Len(d["conta"].rows) :
        /\ SqlEq(b_id, Cell(d, "conta", d["conta"].rows[k], jc.col_benef_conta))
        /\ Cell(d, "conta", d["conta"].rows[k], jc.col_prod).k = "txt"
        /\ upper(Cell(d, "conta", d["conta"].rows[k], jc.col_prod).s) = upper(produto.s)}

\* how many times each beneficiary row appears after the product join
Mult(d, jc, id_benef_ben, produto) ==
    [j \in 1..Len(d["beneficiario"].rows) |->
        IF Joins(jc)
        THEN Cardinality(ContasDe(d, jc,
                Cell(d, "beneficiario", d["beneficiario"].rows[j], id_benef_ben), produto))
        ELSE 1]

\* the beneficiary rows that pass the filters
Passam(d, w, mult, filtros, hoje) ==
    {j \in 1..Len(d["beneficiario"].rows) :
        mult[j] > 0 /\ WhereBenef(d, d["beneficiario"].rows[j], w, filtros, hoje)}

\* autorizacao a JOIN beneficiario b ON b.{id_benef_ben} = a.{id_benef_aut}
\* WHERE {mes_expr} = ? AND {filters}
Pares(d, rows, id_benef_aut, id_benef_ben, passam, competencia) ==
    {p \in DoMes(rows, competencia) \X passam :
        SqlEq(Cell(d, "autorizacao", rows[p[1]].row, id_benef_aut),
              Cell(d, "beneficiario", d["beneficiario"].rows[p[2]], id_benef_ben))}

\* a mutation of base_count: only beneficiaries whose status is active count
base_count_ativos(d, id_benef_ben, passam) ==
    Cardinality({Cell(d, "beneficiario", d["beneficiario"].rows[j], id_benef_ben) :
        j \in {i \in passam :
                 /\ Cell(d, "beneficiario", d["beneficiario"].rows[i], id_benef_ben) # Null
                 /\ (get_status_col(d) # NoneCol =>
                       status_ativo_clause(Cell(d, "beneficiario",
                           d["beneficiario"].rows[i], get_status_col(d))))}})

\* lines 320-325: SELECT COUNT(DISTINCT b.{id_benef_ben}) FROM beneficiario b
\* {join} WHERE {filters}: the distinct non-NULL ids of the rows that pass
base_count(d, id_benef_ben, passam) ==
    Cardinality({Cell(d, "beneficiario", d["beneficiario"].rows[j], id_benef_ben) :
        j \in {i \in passam :
                 Cell(d, "beneficiario", d["beneficiario"].rows[i], id_benef_ben) # Null}})

\* lines 302-308: SELECT COUNT(DISTINCT a.{id_benef_aut})
utilizados_count(d, rows, id_benef_aut, pares) ==
    Cardinality({Cell(d, "autorizacao", rows[p[1]].row, id_benef_aut) : p \in pares})

\* lines 327-343: COALESCE(SUM(CAST(a.{col_qt} AS DOUBLE)), 0) or COUNT(*) over
\* the joined rows, in hundredths
autorizacoes_sum(rows, mult, pares) ==
    SumFn([p \in {q \in pares : rows[q[1]].val # Null} |-> rows[p[1]].val.n * mult[p[2]]])

\* line 350
ErroResumo == HTTPException(500, Detail("Erro ao calcular resumo: {e}", {}, {}))

\* lines 352-358
kpi_utilizacao_resumo_result(competencia, base, utilizados, autorizacoes, filtros) ==
    Ok([competencia              |-> Txt(competencia),
        beneficiarios_base       |-> base,
        beneficiarios_utilizados |-> utilizados,
        autorizacoes             |-> autorizacoes,
        filtros_aplicados        |-> filtros_aplicados(filtros)])

\* the three statements of one request all run on the day h
NoDia(h) == [util |-> h, base |-> h, aut |-> h]

\* lines 345-350 once the joined rows are known: pares are the rows of
\* sql_util, passam_base the rows of sql_base, pares_aut the rows of sql_aut
kpi_utilizacao_resumo_pares(d, rows, id_benef_aut, id_benef_ben, mult, passam_base, pares, pares_aut, competencia, filtros) ==
    IF \E p \in pares_aut : rows[p[1]].val = Raise THEN ErroResumo
    ELSE kpi_utilizacao_resumo_result(competencia,
            base_count(d, id_benef_ben, passam_base),
            utilizados_count(d, rows, id_benef_aut, pares),
            autorizacoes_sum(rows, mult, pares_aut), filtros)

kpi_utilizacao_resumo_passam(d, rows, id_benef_aut, id_benef_ben, mult, passam, passam_base, passam_aut, competencia, filtros) ==
    kpi_utilizacao_resumo_pares(d, rows, id_benef_aut, id_benef_ben, mult, passam_base,
        Pares(d, rows, id_benef_aut, id_benef_ben, passam, competencia),
        Pares(d, rows, id_benef_aut, id_benef_ben, passam_aut, competencia),
        competencia, filtros)

\* lines 346-348: three statements, each committed by itself; CURRENT_DATE is
\* the day the statement's transaction starts, so each has its own day
kpi_utilizacao_resumo_mult(d, rows, id_benef_aut, id_benef_ben, w, mult, competencia, filtros, hoje) ==
    kpi_utilizacao_resumo_passam(d, rows, id_benef_aut, id_benef_ben, mult,
        Passam(d, w, mult, filtros, hoje.util),
        Passam(d, w, mult, filtros, hoje.base),
        Passam(d, w, mult, filtros, hoje.aut), competencia, filtros)

\* the queries fail when a column does not exist, when a date of
\* autorizacao does not parse, or when a birth date under the age filter does
\* not cast
kpi_utilizacao_resumo_try(d, rows, id_benef_aut, id_benef_ben, w, jc, competencia, filtros, hoje) ==
    IF find_col(d, "beneficiario", <<id_benef_ben>>) = NoneCol THEN ErroResumo
    ELSE IF MesRaises(rows) THEN ErroResumo
    ELSE IF w.faixa # NoneCol
            /\ \E j \in 1..Len(d["beneficiario"].rows) :
                  IdadeEm(Cell(d, "beneficiario", d["beneficiario"].rows[j], w.faixa),
                          hoje.util) = Raise
    THEN ErroResumo
    ELSE kpi_utilizacao_resumo_mult(d, rows, id_benef_aut, id_benef_ben, w,
            Mult(d, jc, id_benef_ben, filtros.produto), competencia, filtros, hoje)

\* lines 278-343
kpi_utilizacao_resumo_filtros(d, rows, id_benef_aut, id_benef_ben, w, jc, competencia, filtros, hoje) ==
    IF w.faixa # NoneCol /\ FaixaFiltro(filtros.faixa.s) = Null THEN InternalError
    ELSE kpi_utilizacao_resumo_try(d, rows, id_benef_aut, id_benef_ben, w, jc,
                                   competencia, filtros, hoje)

\* lines 274-277
kpi_utilizacao_resumo_cols(d, id_benef_aut, dt_aut, col_qt, competencia, filtros, hoje) ==
    IF id_benef_aut = NoneCol \/ dt_aut = NoneCol
    THEN HTTPException(400,
            Detail("Faltam colunas em 'autorizacao' (id_beneficiario/dt_autorizacao).",
                   {"autorizacao"}, {id_beneficiario, dt_autorizacao}))
    ELSE kpi_utilizacao_resumo_filtros(d, Autorizacoes(d, dt_aut, col_qt), id_benef_aut,
            OrIdBeneficiario(find_col(d, "beneficiario", CAND_ID_BENEF)),
            add_benef_filters(d, filtros), join_conta(d, filtros.produto),
            competencia, filtros, hoje)

\* GET /kpi/utilizacao/resumo?competencia=&produto=&uf=&cidade=&sexo=&faixa= ;
\* filtros holds the five optional parameters (Null when absent), hoje the
\* days the three statements of the request run (CURRENT_DATE of sql_util,
\* of sql_base and of sql_aut, in the order they are executed)
kpi_utilizacao_resumo(d, competencia, filtros, hoje) ==
    IF ~table_exists(d, "autorizacao")
    THEN HTTPException(400, Detail("Tabela 'autorizacao' nao existe.",
                                   {"autorizacao"}, {}))
    ELSE IF ~table_exists(d, "beneficiario")
    THEN HTTPException(400, Detail("Tabela 'beneficiario' nao existe.",
                                   {"beneficiario"}, {}))
    ELSE kpi_utilizacao_resumo_cols(d, find_col(d, "autorizacao", <<id_beneficiario>>),
                                    find_col(d, "autorizacao", <<dt_autorizacao>>),
                                    find_col(d, "autorizacao", <<qt_autorizada>>),
                                    competencia, filtros, hoje)

\* cur.replace(...): the next month (December rolls to January)
ProximoMes(cur) ==
    IF cur.m = 12 THEN [y |-> cur.y + 1, m |-> 1] ELSE [y |-> cur.y, m |-> cur.m + 1]

RECURSIVE MesesEntre(_, _)
\* lines 375-379: while cur <= end: append cur; advance one month
MesesEntre(cur, end) ==
    IF cur.y > end.y \/ (cur.y = end.y /\ cur.m > end.m) THEN <<>>
    ELSE <<MonthStr(cur.y, cur.m)>> \o MesesEntre(ProximoMes(cur), end)

\* datetime.MAXYEAR: replace(year=...) raises ValueError beyond it
MAXYEAR == 9999

RECURSIVE MesesRaise(_, _)
\* lines 376-379: the loop raises when it advances from December of the last
\* year a datetime can hold
MesesRaise(cur, end) ==
    IF cur.y > end.y \/ (cur.y = end.y /\ cur.m > end.m) THEN FALSE
    ELSE IF cur.m = 12 /\ cur.y + 1 > MAXYEAR THEN TRUE
    ELSE MesesRaise(ProximoMes(cur), end)

\* a mutation of EvolucaoEntry: the entry says how the active beneficiaries
\* were determined
EvolucaoEntry_strategy(m, n) ==
    [competencia |-> Txt(m), beneficiarios_utilizados |-> n,
     active_strategy |-> "no-criterion"]

\* line 388: {"competencia": m, "beneficiarios_utilizados": int(n)}
EvolucaoEntry(m, n) ==
    [competencia |-> Txt(m), beneficiarios_utilizados |-> n]

\* lines 384-387: SELECT COUNT(DISTINCT {id_benef}) FROM autorizacao a
\* WHERE {mes_expr} = ?
UtilizadosNoMes(d, rows, id_benef, m) ==
    Cardinality({Cell(d, "autorizacao", rows[i].row, id_benef) : i \in DoMes(rows, m)}
                \ {Null})

\* lines 381-389
kpi_utilizacao_evolucao_meses(d, rows, id_benef, meses, desde, ate) ==
    IF meses # <<>> /\ MesRaises(rows) THEN InternalError
    ELSE Ok([desde |-> Txt(desde), ate |-> Txt(ate),
             evolucao |-> [i \in 1..Len(meses) |->
                             EvolucaoEntry(meses[i],
                                           UtilizadosNoMes(d, rows, id_benef, meses[i]))]])

\* lines 373-379
kpi_utilizacao_evolucao_parse(d, rows, id_benef, cur, end, desde, ate) ==
    IF cur = Null \/ end = Null THEN InternalError
    ELSE IF MesesRaise(cur, end) THEN InternalError
    ELSE kpi_utilizacao_evolucao_meses(d, rows, id_benef, MesesEntre(cur, end), desde, ate)

\* lines 368-371
kpi_utilizacao_evolucao_cols(d, id_benef, dt_aut, desde, ate) ==
    IF id_benef = NoneCol \/ dt_aut = NoneCol
    THEN HTTPException(400,
            Detail("Faltam colunas em 'autorizacao' (id_beneficiario/dt_autorizacao).",
                   {"autorizacao"}, {id_beneficiario, dt_autorizacao}))
    ELSE kpi_utilizacao_evolucao_parse(d, Autorizacoes(d, dt_aut, NoneCol), id_benef,
                                       PyStrptimeYM(desde), PyStrptimeYM(ate), desde, ate)

\* GET /kpi/utilizacao/evolucao?desde=&ate=
kpi_utilizacao_evolucao(d, desde, ate) ==
    IF ~table_exists(d, "autorizacao")
    THEN HTTPException(400, Detail("Tabela 'autorizacao' nao existe no banco.",
                                   {"autorizacao"}, {}))
    ELSE kpi_utilizacao_evolucao_cols(d, find_col(d, "autorizacao", <<id_beneficiario>>),
                                      find_col(d, "autorizacao", <<dt_autorizacao>>),
                                      desde, ate)

----------------------------------------------------------------------------
\* Scenarios: the tables left by the loader, and the requests

\* most rows of a table whose rows vary in a scenario
MaxRows == 2

\* largest number of months asked of /kpi/sinistralidade/media
MaxMeses == 2

\* largest top / limite asked of a ranking
MaxTop == 2

Jan15 == Txt(<<"2","0","2","4","-","0","1","-","1","5">>)

Feb15 == Txt(<<"1","5","/","0","2","/","2","0","2","4">>)

Dez31 == Txt(<<"2","0","2","3","1","2","3","1">>)

BadDate == Txt(<<"n","/","a">>)

\* competencies asked for: two months with data, and two strings that are not
\* of the form YYYY-MM
Comp202401 == <<"2","0","2","4","-","0","1">>

Comp202402 == <<"2","0","2","4","-","0","2">>

Comp20241 == <<"2","0","2","4","-","1">>

CompBad == <<"j","a","n">>

CompPool == {Comp202401, Comp202402, Comp20241, CompBad}

CompDim == {Comp202401, Comp202402}

\* index sequences of length k over 1..m in non-decreasing order: the rows
\* of a table are a multiset, the order of loading does not matter to a query
NonDecr(k, m) ==
    {ix \in [1..k -> 1..m] : \A i \in 1..(k - 1) : ix[i] <= ix[i + 1]}

\* the tables of at most n rows drawn from a pool of rows
BagsOf(pool, n) ==
    UNION {{[i \in 1..k |-> pool[ix[i]]] : ix \in NonDecr(k, Len(pool))} : k \in 0..n}

\* a row of conta
ContaRow(dt, vl, ben, prod, prest) ==
    (CAND_DATA_CONTA[1] :> dt) @@ (CAND_VALOR_CONTA[1] :> vl)
    @@ (CAND_ID_BENEF[1] :> ben) @@ (CAND_PRODUTO[1] :> prod)
    @@ (CAND_ID_PREST_CONTA[1] :> prest)

\* a row of mensalidade
MensRow(dt, vl, ben, prod) ==
    (CAND_DATA_MENS[1] :> dt) @@ (CAND_VALOR_MENS[1] :> vl)
    @@ (CAND_ID_BENEF[1] :> ben) @@ (CAND_PRODUTO[1] :> prod)

\* a row of beneficiario
BenefRow(id, nasc, sit, cid, prod) ==
    (CAND_ID_BENEF[1] :> id) @@ (CAND_DT_NASC[1] :> nasc)
    @@ (CAND_STATUS_BENEF[1] :> sit) @@ (CAND_CIDADE[1] :> cid)
    @@ (CAND_PRODUTO[1] :> prod)

\* a row of autorizacao
AutRow(dt, qt, ben, prest) ==
    (dt_autorizacao :> dt) @@ (qt_autorizada :> qt)
    @@ (id_beneficiario :> ben) @@ (CAND_ID_PREST_AUT[1] :> prest)

\* a row of prestador
PrestRow(id, nome) ==
    (CAND_ID_PREST_TAB[1] :> id) @@ (CAND_NM_PREST[1] :> nome)

ContaCols == DOMAIN ContaRow(Null, Null, Null, Null, Null)

MensCols == DOMAIN MensRow(Null, Null, Null, Null)

BenefCols == DOMAIN BenefRow(Null, Null, Null, Null, Null)

AutCols == DOMAIN AutRow(Null, Null, Null, Null)

PrestCols == DOMAIN PrestRow(Null, Null)

Table(cols, rows) == [cols |-> cols, rows |-> rows]

\* the database without a table
DropTable(d, t) == [x \in DOMAIN d \ {t} |-> d[x]]

\* the database with a column of a table missing
DropCol(d, t, col) ==
    [d EXCEPT ![t] = Table(@.cols \ {col},
                           [i \in 1..Len(@.rows) |->
                               [c \in DOMAIN @.rows[i] \ {col} |-> @.rows[i][c]]])]

\* the database with a column of a table under another name
RenameCol(d, t, old, new) ==
    [d EXCEPT ![t] = Table((@.cols \ {old}) \cup {new},
                           [i \in 1..Len(@.rows) |->
                               [c \in (DOMAIN @.rows[i] \ {old}) \cup {new} |->
                                   IF c = new THEN @.rows[i][old] ELSE @.rows[i][c]]])]

\* the database with one more column in a table, the same cell in every row
AddCol(d, t, col, v) ==
    [d EXCEPT ![t] = Table(@.cols \cup {col},
                           [i \in 1..Len(@.rows) |-> (col :> v) @@ @.rows[i]])]

\* the database with the column names of a table in capitals
UpperCols(d, t) ==
    [d EXCEPT ![t] = Table({upper(c) : c \in @.cols},
                           [i \in 1..Len(@.rows) |->
                               [c \in {upper(x) : x \in DOMAIN @.rows[i]} |->
                                   @.rows[i][CHOOSE x \in DOMAIN @.rows[i] : upper(x) = c]]])]

ProdA == Txt(<<"A">>)

ProdB == Txt(<<"B">>)

\* two beneficiaries: an active one born in 2010 and a cancelled one born in
\* 1950, in the same city spelled in two cases
BenefFixos ==
    << BenefRow(Num(1), Txt(<<"2","0","1","0","-","0","6","-","3","0">>), Txt(<<"A","t","i","v","o">>), Txt(<<"R","i","o">>), ProdA),
       BenefRow(Num(2), Txt(<<"1","9","5","0","-","0","1","-","0","1">>), Txt(<<"C","a","n","c","e","l","a","d","o">>), Txt(<<"r","i","o">>), ProdB) >>

\* Totals scenarios: claims and premiums of the two beneficiaries over two
\* months; premiums that cancel out leave a month with rows and no revenue
ContaPoolT ==
    << ContaRow(Jan15, Txt(<<"1">>), Num(1), ProdA, Num(1)),
       ContaRow(Jan15, Txt(<<"2">>), Num(2), ProdB, Num(2)),
       ContaRow(Feb15, Txt(<<"1">>), Num(1), ProdA, Num(1)) >>

MensPoolT ==
    << MensRow(Jan15, Txt(<<"1">>), Num(1), ProdA),
       MensRow(Jan15, Txt(<<"-","1">>), Num(1), ProdA),
       MensRow(Jan15, Txt(<<"0">>), Num(2), ProdB),
       MensRow(Feb15, Txt(<<"4">>), Num(2), ProdB) >>

MkDB(conta, mens) ==
    ("conta" :> Table(ContaCols, conta)) @@ ("mensalidade" :> Table(MensCols, mens))
    @@ ("beneficiario" :> Table(BenefCols, BenefFixos))

DBsTotais ==
    {MkDB(c, m) : c \in BagsOf(ContaPoolT, MaxRows), m \in BagsOf(MensPoolT, MaxRows)}

\* Data-quality scenarios: one claim row with a date no format parses, a
\* NULL date, a value that is no number, a NULL value, a formatted value
DBsDados ==
    {MkDB(<<ContaPoolT[1], r>>, <<MensPoolT[1]>>) :
        r \in { ContaRow(BadDate, Txt(<<"1">>), Num(1), ProdA, Num(1)),
                ContaRow(Null, Txt(<<"1">>), Num(1), ProdA, Num(1)),
                ContaRow(Dez31, Txt(<<"a","b","c">>), Num(1), ProdA, Num(1)),
                ContaRow(Jan15, Null, Num(2), Null, Num(1)),
                ContaRow(Jan15, Txt(<<"R","$"," ","1",".","2","3","4",",","5","6">>), Num(2), ProdB, Num(1)) }}

\* Schema scenarios: a table or a column is missing, renamed or in capitals
SchemasDe(d) ==
    { DropTable(d, "mensalidade"), DropTable(d, "conta"), DropTable(d, "beneficiario"),
      DropCol(d, "conta", CAND_DATA_CONTA[1]),
      DropCol(d, "conta", CAND_VALOR_CONTA[1]),
      DropCol(d, "mensalidade", CAND_DATA_MENS[1]),
      DropCol(d, "mensalidade", CAND_VALOR_MENS[1]),
      RenameCol(d, "conta", CAND_VALOR_CONTA[1], CAND_VALOR_CONTA[4]),
      RenameCol(d, "mensalidade", CAND_DATA_MENS[1], CAND_DATA_MENS[7]),
      UpperCols(d, "conta"),
      DropCol(d, "beneficiario", CAND_STATUS_BENEF[1]),
      RenameCol(d, "beneficiario", CAND_STATUS_BENEF[1], CAND_STATUS_BENEF[5]),
      AddCol(d, "beneficiario", CAND_STATUS_BENEF[5], Txt(<<"N">>)),
      DropCol(d, "beneficiario", CAND_ID_BENEF[1]),
      DropCol(d, "beneficiario", CAND_CIDADE[1]),
      DropCol(d, "beneficiario", CAND_DT_NASC[1]),
      DropCol(d, "conta", CAND_PRODUTO[1]),
      DropCol(d, "mensalidade", CAND_PRODUTO[1]),
      DropCol(DropCol(d, "mensalidade", CAND_PRODUTO[1]), "beneficiario", CAND_PRODUTO[1]),
      DropCol(DropCol(DropCol(d, "mensalidade", CAND_PRODUTO[1]),
                      "beneficiario", CAND_PRODUTO[1]), "conta", CAND_PRODUTO[1]) }

DBsSchema ==
    SchemasDe(MkDB(<<ContaPoolT[1], ContaPoolT[2]>>, <<MensPoolT[1], MensPoolT[4]>>))
    \cup SchemasDe(MkDB(<<ContaPoolT[1]>>, <<MensPoolT[3]>>))

LossDBs == DBsTotais \cup DBsDados \cup DBsSchema

\* bracket specifications asked of /kpi/sinistralidade/por_faixa: the default,
\* an open bracket declared first, and one that is no number
BinsPool == { <<"0","-","1","8",",","1","9","-","5","9",",","6","0","+">>, <<"1","0","+",","," ","0","-","8","0">>, <<"x","-","1">> }

LossReqs ==
    {[op |-> "kpi_sin_ultima"]}
    \cup {[op |-> "kpi_sin_media", meses |-> n] : n \in 1..MaxMeses}
    \cup {[op |-> "kpi_sin_diferenca", competencia |-> c] : c \in CompPool}
    \cup {[op |-> "kpi_sin_tendencia_trimestre", fim |-> c] : c \in CompPool}
    \cup {[op |-> "kpi_sin_por_produto", competencia |-> c, top |-> n] :
            c \in CompDim, n \in 1..MaxTop}
    \cup {[op |-> "kpi_sin_por_faixa", competencia |-> c, bins |-> b] :
            c \in {Comp202401, CompBad}, b \in BinsPool}
    \cup {[op |-> "kpi_sin_por_cidade", competencia |-> c, top |-> n] :
            c \in CompDim, n \in 1..MaxTop}
    \cup {[op |-> "kpi_sin_ativos", competencia |-> c] : c \in CompDim}

InitLoss ==
    /\ db \in LossDBs
    /\ req \in LossReqs
    /\ resp = NoResp
    /\ loader = LoaderOff
    /\ seen = NoConn

Serve_kpi_sin_ultima ==
    /\ req.op = "kpi_sin_ultima" /\ resp = NoResp
    /\ resp' = kpi_sin_ultima(db)
    /\ UNCHANGED <<db, req, loader, seen>>

Serve_kpi_sin_media ==
    /\ req.op = "kpi_sin_media" /\ resp = NoResp
    /\ resp' = kpi_sin_media(db, req.meses)
    /\ UNCHANGED <<db, req, loader, seen>>

Serve_kpi_sin_diferenca ==
    /\ req.op = "kpi_sin_diferenca" /\ resp = NoResp
    /\ resp' = kpi_sin_diferenca(db, req.competencia)
    /\ UNCHANGED <<db, req, loader, seen>>

Serve_kpi_sin_tendencia_trimestre ==
    /\ req.op = "kpi_sin_tendencia_trimestre" /\ resp = NoResp
    /\ resp' = kpi_sin_tendencia_trimestre(db, req.fim)
    /\ UNCHANGED <<db, req, loader, seen>>

Serve_kpi_sin_por_produto ==
    /\ req.op = "kpi_sin_por_produto" /\ resp = NoResp
    /\ resp' \in kpi_sin_por_produto(db, req.competencia, req.top)
    /\ UNCHANGED <<db, req, loader, seen>>

Serve_kpi_sin_por_faixa ==
    /\ req.op = "kpi_sin_por_faixa" /\ resp = NoResp
    /\ resp' = kpi_sin_por_faixa(db, req.competencia, req.bins)
    /\ UNCHANGED <<db, req, loader, seen>>

Serve_kpi_sin_por_cidade ==
    /\ req.op = "kpi_sin_por_cidade" /\ resp = NoResp
    /\ resp' \in kpi_sin_por_cidade(db, req.competencia, req.top)
    /\ UNCHANGED <<db, req, loader, seen>>

Serve_kpi_sin_ativos ==
    /\ req.op = "kpi_sin_ativos" /\ resp = NoResp
    /\ resp' = kpi_sin_ativos(db, req.competencia)
    /\ UNCHANGED <<db, req, loader, seen>>

NextLoss ==
    \/ Serve_kpi_sin_ultima
    \/ Serve_kpi_sin_media
    \/ Serve_kpi_sin_diferenca
    \/ Serve_kpi_sin_tendencia_trimestre
    \/ Serve_kpi_sin_por_produto
    \/ Serve_kpi_sin_por_faixa
    \/ Serve_kpi_sin_por_cidade
    \/ Serve_kpi_sin_ativos

SpecLoss == InitLoss /\ [][NextLoss]_vars

----------------------------------------------------------------------------
\* Ranking scenarios: claims and authorizations of two providers

\* an event: a month, a value and the provider it is of
Evento(dt, vl, prest) == [dt |-> dt, vl |-> vl, prest |-> prest]

\* {P1: 100, P2: 300} in January, one more claim that ties the two providers,
\* and a claim of another month
EventoPool ==
    << Evento(Jan15, Txt(<<"1","0","0">>), Num(1)),
       Evento(Jan15, Txt(<<"3","0","0">>), Num(2)),
       Evento(Jan15, Txt(<<"1","0","0">>), Num(2)),
       Evento(Feb15, Txt(<<"1","0","0">>), Num(1)) >>

ContasDosEventos(es) ==
    [i \in 1..Len(es) |-> ContaRow(es[i].dt, es[i].vl, Num(1), ProdA, es[i].prest)]

AutorizacoesDosEventos(es) ==
    [i \in 1..Len(es) |-> AutRow(es[i].dt, es[i].vl, Num(1), es[i].prest)]

\* the providers, each id once
PrestFixos == << PrestRow(Num(1), Txt(<<"P","1">>)), PrestRow(Num(2), Txt(<<"P","2">>)) >>

MkRank(es, mens, prest) ==
    ("conta" :> Table(ContaCols, ContasDosEventos(es)))
    @@ ("autorizacao" :> Table(AutCols, AutorizacoesDosEventos(es)))
    @@ ("mensalidade" :> Table(MensCols, mens))
    @@ ("prestador" :> Table(PrestCols, prest))

\* a month with premiums of 400, and none
MensRank == { <<MensRow(Jan15, Txt(<<"4","0","0">>), Num(1), ProdA)>>, <<>> }

\* the provider table with names, without the name column, with one provider
\* missing, and absent
PrestVariantes(d) ==
    { d, DropCol(d, "prestador", CAND_NM_PREST[1]), DropTable(d, "prestador"),
      [d EXCEPT !["prestador"] = Table(PrestCols, <<PrestFixos[1]>>)] }

RankSchemas(d) ==
    { DropTable(d, "autorizacao"), DropTable(d, "conta"), DropTable(d, "mensalidade"),
      DropCol(d, "autorizacao", qt_autorizada),
      DropCol(d, "autorizacao", CAND_ID_PREST_AUT[1]),
      DropCol(d, "conta", CAND_ID_PREST_CONTA[1]),
      DropCol(d, "prestador", CAND_ID_PREST_TAB[1]) }

RankDBs ==
    UNION {PrestVariantes(MkRank(es, m, PrestFixos)) :
             es \in BagsOf(EventoPool, MaxRows), m \in MensRank}
    \cup RankSchemas(MkRank(<<EventoPool[1], EventoPool[2]>>,
                            <<MensRow(Jan15, Txt(<<"4","0","0">>), Num(1), ProdA)>>, PrestFixos))

RankReqs ==
    {[op |-> "kpi_prestador_top", competencia |-> c, limite |-> n] :
        c \in CompDim, n \in 1..MaxTop}
    \cup {[op |-> "kpi_prestador_impacto", competencia |-> c, top |-> n] :
            c \in CompDim, n \in 1..MaxTop}

InitRank ==
    /\ db \in RankDBs
    /\ req \in RankReqs
    /\ resp = NoResp
    /\ loader = LoaderOff
    /\ seen = NoConn

Serve_kpi_prestador_top ==
    /\ req.op = "kpi_prestador_top" /\ resp = NoResp
    /\ resp' \in kpi_prestador_top(db, req.competencia, req.limite)
    /\ UNCHANGED <<db, req, loader, seen>>

Serve_kpi_prestador_impacto ==
    /\ req.op = "kpi_prestador_impacto" /\ resp = NoResp
    /\ resp' \in kpi_prestador_impacto(db, req.competencia, req.top)
    /\ UNCHANGED <<db, req, loader, seen>>

NextRank ==
    \/ Serve_kpi_prestador_top
    \/ Serve_kpi_prestador_impacto

SpecRank == InitRank /\ [][NextRank]_vars

----------------------------------------------------------------------------
\* Utilization scenarios

\* a row of beneficiario with the columns the filters are on
BenefRowU(id, nasc, sit, cid, uf, sx) ==
    (CAND_ID_BENEF[1] :> id) @@ (CAND_DT_NASC[1] :> nasc)
    @@ (CAND_STATUS_BENEF[1] :> sit) @@ (CAND_CIDADE[1] :> cid)
    @@ (CAND_UF[1] :> uf) @@ (CAND_SEXO[1] :> sx)

BenefColsU == DOMAIN BenefRowU(Null, Null, Null, Null, Null, Null)

\* an active beneficiary born in 2010 and a cancelled one born in 1950
BenefUtil ==
    << BenefRowU(Num(1), Txt(<<"2","0","1","0","-","0","6","-","3","0">>), Txt(<<"A","t","i","v","o">>), Txt(<<"R","i","o">>),
                 Txt(<<"R","J">>), Txt(<<"F">>)),
       BenefRowU(Num(2), Txt(<<"1","9","5","0","-","0","1","-","0","1">>), Txt(<<"C","a","n","c","e","l","a","d","o">>), Txt(<<"N","i","t","e","r","o","i">>),
                 Txt(<<"R","J">>), Txt(<<"M">>)) >>

\* authorizations of the two beneficiaries and of one that is not registered
AutPoolU ==
    << AutRow(Jan15, Txt(<<"1">>), Num(1), Num(1)),
       AutRow(Jan15, Txt(<<"2">>), Num(2), Num(1)),
       AutRow(Feb15, Txt(<<"1">>), Num(1), Num(2)),
       AutRow(Jan15, Txt(<<"1">>), Num(3), Num(2)) >>

\* claims that give beneficiary 1 the product A, twice
ContaUtil ==
    << ContaRow(Jan15, Txt(<<"1">>), Num(1), ProdA, Num(1)),
       ContaRow(Feb15, Txt(<<"1">>), Num(1), ProdA, Num(1)) >>

MkUtil(aut, benef, conta) ==
    ("autorizacao" :> Table(AutCols, aut))
    @@ ("beneficiario" :> Table(BenefColsU, benef))
    @@ ("conta" :> Table(ContaCols, conta))

\* the beneficiary table complete, and without a column a filter is on
BenefVariantes(d) ==
    { d,
      DropCol(d, "beneficiario", CAND_UF[1]),
      DropCol(d, "beneficiario", CAND_CIDADE[1]),
      DropCol(d, "beneficiario", CAND_SEXO[1]),
      DropCol(d, "beneficiario", CAND_DT_NASC[1]),
      DropCol(d, "beneficiario", CAND_STATUS_BENEF[1]),
      DropCol(d, "conta", CAND_PRODUTO[1]),
      DropTable(d, "conta"),
      [d EXCEPT !["beneficiario"] = Table(BenefColsU, <<>>)] }

UtilSchemas(d) ==
    { DropTable(d, "autorizacao"), DropTable(d, "beneficiario"),
      DropCol(d, "autorizacao", id_beneficiario),
      DropCol(d, "autorizacao", dt_autorizacao),
      DropCol(d, "autorizacao", qt_autorizada),
      DropCol(d, "beneficiario", CAND_ID_BENEF[1]),
      [d EXCEPT !["autorizacao"] =
          Table(AutCols, <<AutPoolU[1], AutRow(BadDate, Txt(<<"1">>), Num(1), Num(1))>>)] }

UtilDBs ==
    UNION {BenefVariantes(MkUtil(a, BenefUtil, ContaUtil)) : a \in BagsOf(AutPoolU, MaxRows)}
    \cup UtilSchemas(MkUtil(<<AutPoolU[1], AutPoolU[2]>>, BenefUtil, ContaUtil))

SemFiltros == [produto |-> Null, uf |-> Null, cidade |-> Null, sexo |-> Null, faixa |-> Null]

Filtro(k, v) == [SemFiltros EXCEPT ![k] = Txt(v)]

\* no filter, each filter alone, a filter supplied empty
FiltrosPool ==
    { SemFiltros,
      Filtro("uf", <<"r","j">>), Filtro("uf", <<"S","P">>), Filtro("uf", <<>>),
      Filtro("cidade", <<"R","I","O">>), Filtro("sexo", <<"f">>),
      Filtro("produto", <<"a">>), Filtro("produto", <<"Z">>),
      Filtro("faixa", <<"0","-","1","8">>), Filtro("faixa", <<"6","0","+">>), Filtro("faixa", <<"a","b","c">>) }

\* the year of the day a request runs
Hoje2024 == NoDia([y |-> 2024])

Hoje2029 == NoDia([y |-> 2029])

\* a request made as 2028 ends: the year turns after the first statement, or
\* after the second
Viradas ==
    {[util |-> [y |-> 2028], base |-> [y |-> 2029], aut |-> [y |-> 2029]],
     [util |-> [y |-> 2028], base |-> [y |-> 2028], aut |-> [y |-> 2029]]}

UtilReqs ==
    {[op |-> "kpi_utilizacao_resumo", competencia |-> c, filtros |-> f, hoje |-> h] :
        c \in CompDim, f \in FiltrosPool, h \in {Hoje2024}}
    \cup {[op |-> "kpi_utilizacao_resumo", competencia |-> Comp202401,
           filtros |-> Filtro("faixa", <<"0","-","1","8">>), hoje |-> Hoje2029]}
    \cup {[op |-> "kpi_utilizacao_resumo", competencia |-> Comp202401,
           filtros |-> Filtro("faixa", f), hoje |-> h] :
            f \in {<<"0","-","1","8">>, <<"1","9","+">>}, h \in Viradas}
    \cup {[op |-> "kpi_utilizacao_evolucao", desde |-> a, ate |-> b] :
            a \in {<<"2","0","2","3","-","1","2">>, Comp202401, Comp202402, CompBad},
            b \in {Comp202401, Comp202402}}
    \cup {[op |-> "kpi_utilizacao_evolucao", desde |-> a, ate |-> <<"9","9","9","9","-","1","2">>] :
            a \in {<<"9","9","9","9","-","1","1">>, <<"9","9","9","9","-","1","2">>}}

InitUtil ==
    /\ db \in UtilDBs
    /\ req \in UtilReqs
    /\ resp = NoResp
    /\ loader = LoaderOff
    /\ seen = NoConn

Serve_kpi_utilizacao_resumo ==
    /\ req.op = "kpi_utilizacao_resumo" /\ resp = NoResp
    /\ resp' = kpi_utilizacao_resumo(db, req.competencia, req.filtros, req.hoje)
    /\ UNCHANGED <<db, req, loader, seen>>

Serve_kpi_utilizacao_evolucao ==
    /\ req.op = "kpi_utilizacao_evolucao" /\ resp = NoResp
    /\ resp' = kpi_utilizacao_evolucao(db, req.desde, req.ate)
    /\ UNCHANGED <<db, req, loader, seen>>

NextUtil ==
    \/ Serve_kpi_utilizacao_resumo
    \/ Serve_kpi_utilizacao_evolucao

SpecUtil == InitUtil /\ [][NextUtil]_vars

----------------------------------------------------------------------------
\* Properties of the loss-ratio endpoints

\* the members of a list
Range(s) == {s[i] : i \in 1..Len(s)}

\* the (cost, revenue, ratio) triples a 200 response of a loss-ratio endpoint
\* reports
Triple(custo, receita, ratio) == [custo |-> custo, receita |-> receita, ratio |-> ratio]

TriplesOf(items) == {Triple(x.custo, x.receita, x.sinistralidade) : x \in Range(items)}

RatiosOf(op, body) ==
    CASE op \in {"kpi_sin_ultima", "kpi_sin_diferenca"} ->
            {Triple(body.custo, body.receita, body.sinistralidade)}
      [] op = "kpi_sin_media" ->
            {Triple(body.custo_total, body.receita_total, body.media_sinistralidade_agregada)}
            \cup TriplesOf(body.serie)
      [] op = "kpi_sin_tendencia_trimestre" -> TriplesOf(body.serie)
      [] op = "kpi_sin_por_produto" ->
            IF "observacao" \in DOMAIN body THEN {} ELSE TriplesOf(body.itens)
      [] op \in {"kpi_sin_por_faixa", "kpi_sin_por_cidade"} -> TriplesOf(body.itens)
      [] op = "kpi_sin_ativos" ->
            {Triple(body.custo_ativos, body.receita_ativos, body.sinistralidade_ativos)}

\* a date no format parses is somewhere in the database, or the request
\* carries a month or a bracket list that does not parse
DateError ==
    \E t \in DOMAIN db : \E i \in 1..Len(db[t].rows) : \E c \in DOMAIN db[t].rows[i] :
        db[t].rows[i][c] = BadDate

RequestError ==
    \/ req.op = "kpi_sin_tendencia_trimestre" /\ PyStrptimeYM(req.fim) = Null
    \/ req.op = "kpi_sin_por_faixa"
       /\ (req.competencia = CompBad \/ ~parse_bins(req.bins).ok
           \/ parse_bins(req.bins).faixas = <<>>)

\* the items of /kpi/sinistralidade/por_produto when the revenue cannot be
\* split by product
SemRateio(op, body) ==
    IF op = "kpi_sin_por_produto" /\ "observacao" \in DOMAIN body
    THEN Range(body.itens) ELSE {}

\* C1: in every response of the eight loss-ratio endpoints, a ratio whose
\* revenue total is zero (or unknown) is null, a ratio that is not null is
\* cost / revenue over a revenue that is not zero, and a server error comes
\* only from a date or a parameter that does not parse, never from the
\* division
C1_ZeroRevenueGivesNull ==
    /\ resp.status = 200 =>
         /\ \A t \in RatiosOf(req.op, resp.body) :
               /\ t.receita = 0 => t.ratio = Null
               /\ t.ratio # Null => t.receita # 0 /\ t.ratio = Div(t.custo, t.receita)
         /\ \A x \in SemRateio(req.op, resp.body) :
               x.receita = Null /\ x.sinistralidade = Null
    /\ resp.status = 500 => DateError \/ RequestError

\* a month with claims and premiums that cancel out: the ratio is null
C1_Witness ==
    /\ req.op = "kpi_sin_diferenca" /\ resp.status = 200
    /\ resp.body.custo > 0 /\ resp.body.receita = 0
    /\ resp.body.sinistralidade = Null

\* the totals of a part of a series
CustoDe(s, a, b) == SumFn([i \in a..b |-> s[i].custo])

ReceitaDe(s, a, b) == SumFn([i \in a..b |-> s[i].receita])

\* a ratio (possibly null) has the value num / den, null when den is 0
IsRatio(r, num, den) ==
    IF den = 0 THEN r = Null ELSE r # Null /\ RatEq(r, Div(num, den))

\* C2: the ratio /kpi/sinistralidade/media reports over several months is the
\* sum of the costs of the months considered divided by the sum of their
\* revenues, for every split of the series into two consecutive parts, the
\* monthly totals being those of the database
C2_AggregateOfTotals ==
    (req.op = "kpi_sin_media" /\ resp.status = 200) =>
        /\ \A k \in 0..Len(resp.body.serie) :
              IsRatio(resp.body.media_sinistralidade_agregada,
                      CustoDe(resp.body.serie, 1, k)
                        + CustoDe(resp.body.serie, k + 1, Len(resp.body.serie)),
                      ReceitaDe(resp.body.serie, 1, k)
                        + ReceitaDe(resp.body.serie, k + 1, Len(resp.body.serie)))
        /\ \A e \in Range(resp.body.serie) :
              /\ e.custo = SumMes(Dados(db).conta, e.competencia.s)
              /\ e.receita = SumMes(Dados(db).mens, e.competencia.s)

\* two months whose mean of ratios differs from the ratio of the totals
C2_Witness ==
    /\ req.op = "kpi_sin_media" /\ resp.status = 200
    /\ Len(resp.body.serie) = 2
    /\ Len(Definidas(resp.body.serie)) = 2
    /\ resp.body.media_sinistralidade_agregada # Null
    /\ ~RatEq(Media(Definidas(resp.body.serie)), resp.body.media_sinistralidade_agregada)

\* the endpoints that start from get_competencia_and_val_exprs
LossOps ==
    {"kpi_sin_ultima", "kpi_sin_media", "kpi_sin_diferenca", "kpi_sin_tendencia_trimestre",
     "kpi_sin_por_produto", "kpi_sin_por_faixa", "kpi_sin_por_cidade", "kpi_sin_ativos"}

BothTables == table_exists(db, "conta") /\ table_exists(db, "mensalidade")

\* a required field of a table finds no column
Unresolved(table, candidates) == find_col(db, table, candidates) = NoneCol

ContaUnresolved ==
    Unresolved("conta", CAND_DATA_CONTA) \/ Unresolved("conta", CAND_VALOR_CONTA)

MensUnresolved ==
    Unresolved("mensalidade", CAND_DATA_MENS) \/ Unresolved("mensalidade", CAND_VALOR_MENS)

\* the request got as far as resolving the required fields
ReachedResolution ==
    /\ req.op \in LossOps /\ resp # NoResp /\ BothTables
    /\ req.op = "kpi_sin_por_cidade" => table_exists(db, "beneficiario")

\* the candidates of the fields of a table that found no column
Tried(table) ==
    IF table = "conta"
    THEN UNION {Range(c) : c \in {x \in {CAND_DATA_CONTA, CAND_VALOR_CONTA} :
                                     Unresolved("conta", x)}}
    ELSE UNION {Range(c) : c \in {x \in {CAND_DATA_MENS, CAND_VALOR_MENS} :
                                     Unresolved("mensalidade", x)}}

FailedTable == IF ContaUnresolved THEN "conta" ELSE "mensalidade"

\* C5 as stated: the error of an unresolved required field names the table,
\* every candidate that was tried and every available column
C5_ListsCandidatesAndColumns ==
    (ReachedResolution /\ (ContaUnresolved \/ MensUnresolved)) =>
        /\ resp.status = 400
        /\ FailedTable \in resp.detail.tables
        /\ Tried(FailedTable) \subseteq resp.detail.columns
        /\ get_cols(db, FailedTable) \subseteq resp.detail.columns

\* C5: when the date or the value of conta or of mensalidade finds no column,
\* the request fails with status 400 and no KPI value; the detail names the
\* table (conta first) and one example column for the date and one for the
\* value, not the candidates tried nor the available columns
C5_NamesTableAndExamples ==
    (ReachedResolution /\ (ContaUnresolved \/ MensUnresolved)) =>
        /\ resp.status = 400
        /\ "body" \notin DOMAIN resp
        /\ resp.detail.tables = {FailedTable}
        /\ resp.detail.columns =
              IF ContaUnresolved THEN {CAND_DATA_CONTA[1], CAND_VALOR_CONTA[2]}
              ELSE {CAND_DATA_MENS[1], CAND_VALOR_MENS[1]}
        /\ ~(Tried(FailedTable) \subseteq resp.detail.columns)

\* the value of mensalidade finds no column while conta resolves
C5_Witness ==
    /\ ReachedResolution /\ ~ContaUnresolved
    /\ Unresolved("mensalidade", CAND_VALOR_MENS)
    /\ resp.status = 400

\* the status candidates that hold a text, and those that hold a flag
StatusText == {CAND_STATUS_BENEF[i] : i \in 1..4}

StatusFlag == {CAND_STATUS_BENEF[i] : i \in 5..7}

HasStatus(names) ==
    /\ table_exists(db, "beneficiario")
    /\ \E n \in names : lower(n) \in {lower(c) : c \in get_cols(db, "beneficiario")}

\* /kpi/sinistralidade/ativos got as far as looking for the status column
ReachedStatus ==
    /\ req.op = "kpi_sin_ativos" /\ resp # NoResp
    /\ Dados(db).ok
    /\ get_benef_keys(db).conta_benef # NoneCol
    /\ get_benef_keys(db).mens_benef # NoneCol
    /\ get_benef_keys(db).benef_key # NoneCol

\* C8 as stated: with neither a status text nor a flag column, every
\* beneficiary is active and the computation returns a result
C8_FallsBackToAllActive ==
    (ReachedStatus /\ ~HasStatus(StatusText) /\ ~HasStatus(StatusFlag)) =>
        resp.status \in {200, 500}

\* C8: a status-text column is used before a flag column, a flag column is
\* used when there is no text column, and with neither the request fails with
\* status 400 and returns no result
C8_TextThenFlagThenError ==
    /\ (req.op = "kpi_sin_ativos" /\ HasStatus(StatusText)) =>
          get_status_col(db) \in StatusText
    /\ (req.op = "kpi_sin_ativos" /\ HasStatus(StatusFlag) /\ ~HasStatus(StatusText)) =>
          get_status_col(db) \in StatusFlag
    /\ (ReachedStatus /\ ~HasStatus(StatusText) /\ ~HasStatus(StatusFlag)) =>
          /\ resp.status = 400
          /\ "body" \notin DOMAIN resp
    /\ (ReachedStatus /\ resp.status = 200 /\ HasStatus(StatusText)) =>
          resp.body.custo_ativos =
             SomaAtivos(PorBenef(db, "conta", Dados(db).conta,
                                 get_benef_keys(db).conta_benef,
                                 get_benef_keys(db).benef_key,
                                 CHOOSE n \in StatusText : HasStatus({n}),
                                 req.competencia))

\* no status column, every other column in place, claims in the month
C8_Witness ==
    /\ ReachedStatus /\ ~HasStatus(StatusText) /\ ~HasStatus(StatusFlag)
    /\ resp.status = 400
    /\ SumMes(Dados(db).conta, req.competencia) > 0

----------------------------------------------------------------------------
\* Properties of the utilization endpoints

ResumoOk == req.op = "kpi_utilizacao_resumo" /\ resp.status = 200

\* a supplied filter constrains the counts: its column was found
Constrains(k) ==
    IF k = "produto" THEN Joins(join_conta(db, req.filtros.produto))
    ELSE add_benef_filters(db, req.filtros)[k] # NoneCol

\* the summary got as far as building its filters
ReachedFilters ==
    /\ req.op = "kpi_utilizacao_resumo" /\ resp # NoResp
    /\ table_exists(db, "autorizacao") /\ table_exists(db, "beneficiario")
    /\ find_col(db, "autorizacao", <<id_beneficiario>>) # NoneCol
    /\ find_col(db, "autorizacao", <<dt_autorizacao>>) # NoneCol

SuppliedFilters == {k \in DOMAIN req.filtros : Supplied(req.filtros[k])}

\* C6: a supplied filter whose column is not found is skipped without failing
\* the request, and filtros_aplicados lists no filter that did not constrain
\* the counts
C6_SkippedFilterNotApplied ==
    /\ (ReachedFilters /\ \E k \in SuppliedFilters : ~Constrains(k)) => resp.status # 400
    /\ ResumoOk => \A k \in resp.body.filtros_aplicados : Constrains(k)

\* the state filter is supplied, beneficiario has no state column, and the
\* response lists the filter although every beneficiary was counted
C6_Witness ==
    /\ ResumoOk
    /\ Supplied(req.filtros.uf) /\ ~Constrains("uf")
    /\ "uf" \in resp.body.filtros_aplicados
    /\ resp.body.beneficiarios_base = Len(db["beneficiario"].rows)
    /\ resp.body.beneficiarios_base > 0

\* the summary keys
ResumoKeys ==
    {"competencia", "beneficiarios_base", "beneficiarios_utilizados", "autorizacoes",
     "filtros_aplicados"}

Strategies == {"status-text", "status-flag", "no-criterion"}

\* C7 as stated: the summary and every entry of the evolution carry an
\* active_strategy, one of status-text, status-flag, no-criterion
C7_StrategyAlwaysPresent ==
    /\ ResumoOk =>
          /\ "active_strategy" \in DOMAIN resp.body
          /\ resp.body.active_strategy \in Strategies
    /\ (req.op = "kpi_utilizacao_evolucao" /\ resp.status = 200) =>
          \A e \in Range(resp.body.evolucao) :
              /\ "active_strategy" \in DOMAIN e
              /\ e.active_strategy \in Strategies

\* C7: no utilization result carries an active_strategy: the summary has
\* exactly the keys competencia, beneficiarios_base, beneficiarios_utilizados,
\* autorizacoes and filtros_aplicados, and every entry of the evolution
\* exactly competencia and beneficiarios_utilizados
C7_NoStrategyReported ==
    /\ ResumoOk => DOMAIN resp.body = ResumoKeys
    /\ (req.op = "kpi_utilizacao_evolucao" /\ resp.status = 200) =>
          /\ DOMAIN resp.body = {"desde", "ate", "evolucao"}
          /\ \A e \in Range(resp.body.evolucao) :
                DOMAIN e = {"competencia", "beneficiarios_utilizados"}

\* an evolution of two months, one of them with a beneficiary
C7_Witness ==
    /\ req.op = "kpi_utilizacao_evolucao" /\ resp.status = 200
    /\ Len(resp.body.evolucao) = 2
    /\ \E e \in Range(resp.body.evolucao) : e.beneficiarios_utilizados > 0

\* the beneficiary rows that pass the filters applied to a request
Filtrados ==
    Passam(db, add_benef_filters(db, req.filtros),
           Mult(db, join_conta(db, req.filtros.produto),
                OrIdBeneficiario(find_col(db, "beneficiario", CAND_ID_BENEF)),
                req.filtros.produto),
           req.filtros, req.hoje.base)

IdsDe(rows) ==
    {Cell(db, "beneficiario", db["beneficiario"].rows[j],
          find_col(db, "beneficiario", CAND_ID_BENEF)) : j \in rows} \ {Null}

Ativos ==
    {j \in 1..Len(db["beneficiario"].rows) :
        status_ativo_clause(Cell(db, "beneficiario", db["beneficiario"].rows[j],
                                 get_status_col(db)))}

\* C9 as stated: the summary returns rate = used / base, null when base is 0,
\* base counting only the active beneficiaries that satisfy the filters
C9_RateOverActiveBase ==
    ResumoOk =>
        /\ "rate" \in DOMAIN resp.body
        /\ resp.body.rate = IF resp.body.beneficiarios_base = 0 THEN Null
                            ELSE Div(resp.body.beneficiarios_utilizados,
                                     resp.body.beneficiarios_base)
        /\ get_status_col(db) # NoneCol =>
              resp.body.beneficiarios_base = Cardinality(IdsDe(Filtrados \cap Ativos))

\* C9: the summary returns the two counts and no rate; the base counts the
\* distinct beneficiaries that satisfy the applied filters whatever their
\* status, and may be 0
C9_CountsWithoutRate ==
    ResumoOk =>
        /\ DOMAIN resp.body \cap {"rate", "taxa", "taxa_utilizacao"} = {}
        /\ resp.body.beneficiarios_base = Cardinality(IdsDe(Filtrados))
        /\ resp.body.beneficiarios_utilizados \in 0..Len(db["autorizacao"].rows)

\* a cancelled beneficiary is in the base
C9_Witness ==
    /\ ResumoOk
    /\ get_status_col(db) # NoneCol
    /\ resp.body.beneficiarios_base > Cardinality(IdsDe(Filtrados \cap Ativos))

\* a base of 0 is returned with no rate
C9_WitnessEmptyBase ==
    /\ ResumoOk
    /\ resp.body.beneficiarios_base = 0
    /\ resp.body.beneficiarios_utilizados = 0

----------------------------------------------------------------------------
\* Properties of the provider rankings

RankOk == req.op \in {"kpi_prestador_top", "kpi_prestador_impacto"} /\ resp.status = 200

\* the score of an entry of either ranking
ScoreOf(e) == IF "score" \in DOMAIN e THEN e.score ELSE e.custo

\* an entry comes before another: higher score, or equal score and lower id
Before(a, b) ==
    \/ ScoreOf(a) > ScoreOf(b)
    \/ ScoreOf(a) = ScoreOf(b) /\ a.id_prestador.n < b.id_prestador.n

\* the responses the handler can give to the request
Responses ==
    IF req.op = "kpi_prestador_top"
    THEN kpi_prestador_top(db, req.competencia, req.limite)
    ELSE kpi_prestador_impacto(db, req.competencia, req.top)

LimitOf == IF req.op = "kpi_prestador_top" THEN req.limite ELSE req.top

\* C10: a ranking returns at most limit entries ordered by score descending,
\* ties by ascending provider id, the same list for every execution on the
\* same data
C10_DeterministicRanking ==
    RankOk =>
        /\ Len(resp.body.top) <= LimitOf
        /\ \A i, j \in 1..Len(resp.body.top) :
              i < j => Before(resp.body.top[i], resp.body.top[j])
        /\ Responses = {resp}

\* what holds of a ranking: at most limit entries, scores never increasing,
\* one entry per provider
C10_SortedByScore ==
    RankOk =>
        /\ Len(resp.body.top) <= LimitOf
        /\ \A i, j \in 1..Len(resp.body.top) :
              i < j => /\ ScoreOf(resp.body.top[i]) >= ScoreOf(resp.body.top[j])
                       /\ resp.body.top[i].id_prestador # resp.body.top[j].id_prestador

\* two providers tie at 100 and the one with the higher id is returned alone
C10_Witness ==
    /\ RankOk /\ LimitOf = 1
    /\ Cardinality(Responses) = 2
    /\ Len(resp.body.top) = 1
    /\ resp.body.top[1].id_prestador = Num(2)


----------------------------------------------------------------------------
\* Age brackets

\* the first day of the month a summary is asked for, as the day the ages are
\* counted to
InicioDaCompetencia == PyStrptimeYM(req.competencia)

\* C11: every age that places a beneficiary in a bracket counts the years from
\* the birth date to the first day of the requested competency, so the
\* bracket filter of the utilization summary gives the counts it gives with
\* the first day of the competency as the day of the request, whatever the
\* day the request runs
C11_AgeAtCompetencyStart ==
    ReachedFilters =>
        resp = kpi_utilizacao_resumo(db, req.competencia, req.filtros,
                                     NoDia(InicioDaCompetencia))

\* a summary filtered by bracket, run five years after the competency, that
\* leaves out a beneficiary who was in the bracket at the competency
C11_Witness ==
    /\ ResumoOk
    /\ Supplied(req.filtros.faixa)
    /\ req.hoje.base.y # InicioDaCompetencia.y
    /\ resp.body.beneficiarios_base
         # kpi_utilizacao_resumo(db, req.competencia, req.filtros,
                                 NoDia(InicioDaCompetencia)).body.beneficiarios_base

\* most claim rows of a bracket scenario
MaxClaims == 3

\* beneficiaries who are 10, 18, 19, 60 and 65 calendar years old in 2024,
\* and one with no birth date
BenefFaixa ==
    << BenefRow(Num(1), Txt(<<"2","0","1","4","-","0","3","-","1","0">>), Txt(<<"A","t","i","v","o">>), Txt(<<"R","i","o">>), ProdA),
       BenefRow(Num(2), Txt(<<"2","0","0","6","-","1","2","-","3","1">>), Txt(<<"A","t","i","v","o">>), Txt(<<"R","i","o">>), ProdA),
       BenefRow(Num(3), Txt(<<"2","0","0","5","-","0","1","-","0","1">>), Txt(<<"A","t","i","v","o">>), Txt(<<"R","i","o">>), ProdA),
       BenefRow(Num(4), Txt(<<"1","9","6","4","-","0","7","-","0","1">>), Txt(<<"A","t","i","v","o">>), Txt(<<"R","i","o">>), ProdA),
       BenefRow(Num(5), Txt(<<"1","9","5","9","-","0","2","-","0","2">>), Txt(<<"A","t","i","v","o">>), Txt(<<"R","i","o">>), ProdA),
       BenefRow(Num(6), Null, Txt(<<"A","t","i","v","o">>), Txt(<<"R","i","o">>), ProdA) >>

\* claims of January 2024: 50, 70 and 30 for the beneficiaries aged 10, 19
\* and 65, and claims of those aged 18 and 60, of the one with no birth date
\* and of one who is not registered
ContaPoolF ==
    << ContaRow(Jan15, Txt(<<"5","0">>), Num(1), ProdA, Num(1)),
       ContaRow(Jan15, Txt(<<"7","0">>), Num(3), ProdA, Num(1)),
       ContaRow(Jan15, Txt(<<"3","0">>), Num(5), ProdA, Num(1)),
       ContaRow(Jan15, Txt(<<"1">>), Num(2), ProdA, Num(1)),
       ContaRow(Jan15, Txt(<<"2">>), Num(4), ProdA, Num(1)),
       ContaRow(Jan15, Txt(<<"4">>), Num(6), ProdA, Num(1)),
       ContaRow(Jan15, Txt(<<"8">>), Num(9), ProdA, Num(1)) >>

MensPoolF ==
    { <<>>,
      <<MensRow(Jan15, Txt(<<"1","0","0">>), Num(1), ProdA)>>,
      <<MensRow(Jan15, Txt(<<"1","0","0">>), Num(5), ProdA)>> }

\* the rows of a pool at the positions ix, in the order of the pool
Escolha(pool, ix) ==
    [i \in 1..Cardinality(ix) |->
        pool[CHOOSE p \in ix : Cardinality({q \in ix : q < p}) = i - 1]]

\* the tables of at most n rows of a pool, each row at most once
TabelasDe(pool, n) ==
    {Escolha(pool, ix) : ix \in {s \in SUBSET (1..Len(pool)) : Cardinality(s) <= n}}

MkFaixa(conta, mens) ==
    ("conta" :> Table(ContaCols, conta)) @@ ("mensalidade" :> Table(MensCols, mens))
    @@ ("beneficiario" :> Table(BenefCols, BenefFaixa))

FaixaDBs == {MkFaixa(c, m) : c \in TabelasDe(ContaPoolF, MaxClaims), m \in MensPoolF}

BinsDefault == <<"0","-","1","8",",","1","9","-","5","9",",","6","0","+">>

\* bracket specifications: the default, an open bracket declared before a
\* bounded one, overlapping brackets, brackets that leave ages out, and one
\* that is no number
BinsPoolF == { BinsDefault, <<"1","0","+",","," ","0","-","8","0">>, <<"0","-","3","0",",","1","9","-","7","0">>, <<"1","9","-","5","9">>, <<"x","-","1">> }

FaixaReqs ==
    {[op |-> "kpi_sin_por_faixa", competencia |-> c, bins |-> b] :
        c \in {Comp202401, Comp202402, CompBad}, b \in BinsPoolF}

InitFaixa ==
    /\ db \in FaixaDBs
    /\ req \in FaixaReqs
    /\ resp = NoResp
    /\ loader = LoaderOff
    /\ seen = NoConn

NextFaixa == Serve_kpi_sin_por_faixa

SpecFaixa == InitFaixa /\ [][NextFaixa]_vars

FaixaOk == req.op = "kpi_sin_por_faixa" /\ resp.status = 200

\* the brackets asked for
FaixasPedidas == parse_bins(req.bins).faixas

\* the claims of the competency joined to their beneficiary, with the age
ContasComIdade ==
    ComIdade(PorBenef(db, "conta", Dados(db).conta, get_benef_keys(db).conta_benef,
                      get_benef_keys(db).benef_key, get_dt_nasc(db), req.competencia),
             PyStrptimeYM(req.competencia))

\* the bounds of a bracket include an age
Inclui(f, idade) ==
    /\ idade.k = "num"
    /\ idade.n >= f.a
    /\ f.b # Null => idade.n <= f.b.n

\* the label of the first bracket, in declared order, that includes an age
PrimeiraFaixa(faixas, idade) ==
    IF \E i \in 1..Len(faixas) : Inclui(faixas[i], idade)
    THEN faixas[MinOf({i \in 1..Len(faixas) : Inclui(faixas[i], idade)})].label
    ELSE <<"O","U","T","R","O","S">>

\* the cost the response reports for a bracket, 0 when it has no entry
CustoDaFaixa(label) ==
    SumFn([x \in {y \in Range(resp.body.itens) : y.faixa = label} |-> x.custo])

\* the bracket labels of the entries of the response, in order
FaixasDosItens == [i \in 1..Len(resp.body.itens) |-> resp.body.itens[i].faixa]

\* C12: for any bracket specification, overlapping brackets and an open
\* bracket declared before a bounded one included, the cost of each claim goes
\* to the first bracket in declared order whose bounds include the age of its
\* beneficiary
C12_FirstDeclaredBracket ==
    FaixaOk =>
        \A i \in 1..Len(FaixasPedidas) :
            CustoDaFaixa(FaixasPedidas[i].label)
              = SumFn([y \in {z \in ContasComIdade :
                                PrimeiraFaixa(FaixasPedidas, z.k) = FaixasPedidas[i].label}
                       |-> y.v])

\* a claim of a beneficiary whose age is in an open bracket declared first
\* and in a bounded bracket declared after it
C12_Witness ==
    /\ FaixaOk
    /\ \E y \in ContasComIdade : \E i, j \in 1..Len(FaixasPedidas) :
          /\ i < j
          /\ FaixasPedidas[i].b = Null /\ FaixasPedidas[j].b # Null
          /\ Inclui(FaixasPedidas[i], y.k) /\ Inclui(FaixasPedidas[j], y.k)
          /\ CustoDaFaixa(FaixasPedidas[j].label) > 0

\* C13: the response has one entry for every bracket of the specification,
\* in declared order, a bracket no claim or premium falls into included (with
\* cost 0)
C13_EveryBracketListed ==
    FaixaOk =>
        SelectSeq(FaixasDosItens, LAMBDA l : l \in Range(Labels(FaixasPedidas)))
          = Labels(FaixasPedidas)

\* a response that lacks the entry of a bracket no row falls into
C13_Witness ==
    /\ FaixaOk
    /\ \E l \in Range(Labels(FaixasPedidas)) : l \notin Range(FaixasDosItens)

\* the costs of the claims whose beneficiary has an age from lo to hi
SomaIdades(lo, hi) ==
    SumFn([y \in {z \in ContasComIdade : z.k.k = "num" /\ z.k.n >= lo /\ z.k.n <= hi}
           |-> y.v])

\* the claims of 50, 70 and 30 of the beneficiaries aged 10, 19 and 65, asked
\* for in their month
Cenario103 ==
    /\ db["conta"].rows = <<ContaPoolF[1], ContaPoolF[2], ContaPoolF[3]>>
    /\ req.competencia = Comp202401

\* C14: under "0-18,19-59,60+" the bounds are inclusive at both ends and the
\* last bracket is open above: the ages 0..18 (18 included) are costed to
\* "0-18", 19..59 to "19-59", 60 and above to "60+"; the claims 50, 70, 30 of
\* beneficiaries aged 10, 19, 65 give 50, 70 and 30 (amounts in hundredths)
C14_InclusiveBounds ==
    (FaixaOk /\ req.bins = BinsDefault) =>
        /\ CustoDaFaixa(<<"0","-","1","8">>) = SomaIdades(0, 18)
        /\ CustoDaFaixa(<<"1","9","-","5","9">>) = SomaIdades(19, 59)
        /\ CustoDaFaixa(<<"6","0","+">>) = SomaIdades(60, 200)
        /\ Cenario103 =>
              /\ CustoDaFaixa(<<"0","-","1","8">>) = 5000
              /\ CustoDaFaixa(<<"1","9","-","5","9">>) = 7000
              /\ CustoDaFaixa(<<"6","0","+">>) = 3000

\* the scenario of the three claims, answered under the default brackets
C14_Witness ==
    /\ FaixaOk /\ req.bins = BinsDefault /\ Cenario103
    /\ Len(resp.body.itens) = 3

\* claims of beneficiaries aged exactly 18 and 60, answered under the default
\* brackets
C14_WitnessBoundaries ==
    /\ FaixaOk /\ req.bins = BinsDefault
    /\ \E y, z \in ContasComIdade : y.k = Num(18) /\ z.k = Num(60)
    /\ CustoDaFaixa(<<"0","-","1","8">>) > 0 /\ CustoDaFaixa(<<"6","0","+">>) > 0

----------------------------------------------------------------------------
\* Empty data, malformed competencies, amounts and dates

\* the endpoints that choose the latest months themselves
SemCompetencia == {"kpi_sin_ultima", "kpi_sin_media"}

\* the columns of conta and mensalidade resolved, so that the request gets to
\* its queries
Resolvido == BothTables /\ Dados(db).ok

\* no row of conta or mensalidade matches the request: no row has a month
\* at all, or (for a request of one competency) none has that month
NenhumaLinha ==
    IF req.op \in SemCompetencia \cup {"kpi_sin_tendencia_trimestre"}
    THEN MesesDe(Dados(db).conta) \cup MesesDe(Dados(db).mens) = {}
    ELSE /\ DoMes(Dados(db).conta, req.competencia) = {}
         /\ DoMes(Dados(db).mens, req.competencia) = {}

\* C15: no loss-ratio KPI answers an empty data set with an error: when no
\* row matches, the tables holding no row with a parseable month included,
\* the response is a result whose totals are 0 and whose ratios are null
C15_EmptyIsNotAnError ==
    (req.op \in SemCompetencia \cup {"kpi_sin_diferenca"} /\ resp # NoResp
     /\ Resolvido /\ NenhumaLinha) =>
        /\ resp.status = 200
        /\ \A t \in RatiosOf(req.op, resp.body) :
              t.custo = 0 /\ t.receita = 0 /\ t.ratio = Null

\* the latest competency asked of two empty tables, answered 404
C15_Witness ==
    /\ req.op = "kpi_sin_ultima" /\ resp.status = 404
    /\ db["conta"].rows = <<>> /\ db["mensalidade"].rows = <<>>

\* the difference asked for a month with no rows, answered with zeros
C15_WitnessZeros ==
    /\ req.op = "kpi_sin_diferenca" /\ resp.status = 200
    /\ Resolvido /\ NenhumaLinha
    /\ resp.body.custo = 0 /\ resp.body.receita = 0 /\ resp.body.sinistralidade = Null

\* ^\d{4}-\d{2}$
CompetenciaValida(c) ==
    /\ Len(c) = 7
    /\ AllDigits(SubSeq(c, 1, 4)) /\ c[5] = "-" /\ AllDigits(SubSeq(c, 6, 7))

\* the competency string of a loss-ratio request that takes one
CompetenciaPedida ==
    IF req.op = "kpi_sin_tendencia_trimestre" THEN req.fim ELSE req.competencia

\* a rejection for the form of a parameter: a client error that names no
\* table, so that no table was looked up for it
ErroDeFormato == resp.status \in {400, 422} /\ resp.detail.tables = {}

\* C16: a loss-ratio request whose competency does not match ^\d{4}-\d{2}$
\* is rejected with an error about the format of the competency before any
\* table is looked up and before any query runs
C16_MalformedRejectedFirst ==
    (req.op \in LossOps \ SemCompetencia /\ resp # NoResp
     /\ ~CompetenciaValida(CompetenciaPedida)) => ErroDeFormato

\* a difference asked for the competency "jan" and answered with zeros
C16_Witness ==
    /\ req.op = "kpi_sin_diferenca" /\ req.competencia = CompBad
    /\ resp.status = 200 /\ resp.body.custo = 0 /\ resp.body.receita = 0

\* a trend asked up to "jan" of a database without mensalidade: the tables
\* are looked up before the month is parsed
C16_WitnessLookupFirst ==
    /\ req.op = "kpi_sin_tendencia_trimestre" /\ req.fim = CompBad
    /\ resp.status = 400 /\ resp.detail.tables # {}

\* a trend asked up to "2024-1", a month that is not of two digits, and
\* answered
C16_WitnessOneDigit ==
    /\ req.op = "kpi_sin_tendencia_trimestre" /\ req.fim = Comp20241
    /\ resp.status = 200

\* longest amount text drawn letter by letter
MaxMoneyLen == 3

\* the characters of the amount texts
MoneyChars == {"1", "5", ".", ",", "R", "$", " ", "-", "x"}

\* amount cells: every text of at most MaxMoneyLen characters, some longer
\* amounts as they are written in Brazil, and NULL
MoneyCells ==
    {Txt(s) : s \in UNION {[1..n -> MoneyChars] : n \in 0..MaxMoneyLen}}
    \cup {Txt(<<"R","$"," ","1",".","2","3","4",",","5","6">>), Txt(<<"1",".","2","3","4",",","5","6">>), Txt(<<"1",".","2","3","4">>), Txt(<<"1",",","2","3","4",".","5","6">>),
          Txt(<<"R","$"," ","1","5">>), Null}

\* a claim of 10.00 and a claim whose amount is any of the cells
MoneyDBs ==
    {MkDB(<<ContaRow(Jan15, Txt(<<"1","0">>), Num(1), ProdA, Num(1)),
            ContaRow(Jan15, v, Num(1), ProdA, Num(1))>>,
          <<MensPoolT[1]>>) : v \in MoneyCells}

InitMoney ==
    /\ db \in MoneyDBs
    /\ req \in {[op |-> "kpi_sin_diferenca", competencia |-> Comp202401]}
    /\ resp = NoResp
    /\ loader = LoaderOff
    /\ seen = NoConn

NextMoney == Serve_kpi_sin_diferenca

SpecMoney == InitMoney /\ [][NextMoney]_vars

\* the amount cell of the second claim
Bruto == db["conta"].rows[2][CAND_VALOR_CONTA[1]]

\* a text without 'R$', then without blanks and dots, its commas as dots
Limpo(s) ==
    [i \in 1..Len(SelectSeq(ReplaceAll(s, <<"R", "$">>, <<>>),
                            LAMBDA c : c \notin {" ", "."})) |->
        IF SelectSeq(ReplaceAll(s, <<"R", "$">>, <<>>),
                     LAMBDA c : c \notin {" ", "."})[i] = ","
        THEN "."
        ELSE SelectSeq(ReplaceAll(s, <<"R", "$">>, <<>>),
                       LAMBDA c : c \notin {" ", "."})[i]]

\* the direct cast of a cell, and the cast of its cleaned text
Direto(c) == TRY_CAST_DOUBLE(c)

Repetido(c) == IF c = Null THEN Null ELSE TRY_CAST_DOUBLE(Txt(Limpo(c.s)))

\* C17: an amount is the result of the direct numeric cast whenever that cast
\* succeeds; only when it fails, the result of the cast of the text without
\* 'R$', blanks and '.', with ',' as '.'; and 0 when that fails too or the
\* value is missing; the request is answered and the sum of the claims
\* counts the amount so
C17_DirectThenCleanedThenZero ==
    (req.op = "kpi_sin_diferenca" /\ resp # NoResp) =>
        /\ resp.status = 200
        /\ resp.body.custo
             = 1000 + (IF Direto(Bruto) # Null THEN Direto(Bruto).n
                       ELSE IF Repetido(Bruto) # Null THEN Repetido(Bruto).n
                       ELSE 0)

\* 'R$ 1.234,56' fails the direct cast and counts as 1234.56
C17_Witness ==
    /\ req.op = "kpi_sin_diferenca" /\ resp.status = 200
    /\ Bruto = Txt(<<"R","$"," ","1",".","2","3","4",",","5","6">>)
    /\ Direto(Bruto) = Null
    /\ resp.body.custo = 1000 + 123456

\* '1.5' passes the direct cast and counts as 1.50, not as the 15 of its
\* cleaned text
C17_WitnessDirect ==
    /\ req.op = "kpi_sin_diferenca" /\ resp.status = 200
    /\ Bruto = Txt(<<"1", ".", "5">>)
    /\ resp.body.custo = 1000 + 150
    /\ Repetido(Bruto) = Num(1500)

\* a text that is no amount counts as 0
C17_WitnessZero ==
    /\ req.op = "kpi_sin_diferenca" /\ resp.status = 200
    /\ Bruto = Txt(<<"x">>)
    /\ resp.body.custo = 1000

\* a text that no format of DATE_CANDIDATES parses
SemFormato(c) ==
    /\ c.k = "txt"
    /\ \A i \in 1..Len(DATE_CANDIDATES) : TRY_STRPTIME(c, DATE_CANDIDATES[i]) = Null

\* the claims whose date matches no format
DatasRuins ==
    {i \in 1..Len(db["conta"].rows) :
        SemFormato(Cell(db, "conta", db["conta"].rows[i], Dados(db).e.data_conta))}

\* the database without the claims whose date matches no format
SemDatasRuins ==
    [db EXCEPT !["conta"] =
        Table(@.cols, SelectSeq(@.rows,
                LAMBDA r : ~SemFormato(Cell(db, "conta", r, Dados(db).e.data_conta))))]

\* C18: a date that matches none of the accepted forms is a missing date: its
\* row is left out of the sums of every month, no month is given to it, and
\* the request does not fail; the difference of a month is answered as it is
\* over the database without such rows
C18_UnparseableDateIsMissing ==
    (req.op = "kpi_sin_diferenca" /\ resp # NoResp /\ Resolvido /\ DatasRuins # {}) =>
        /\ resp.status = 200
        /\ resp = kpi_sin_diferenca(SemDatasRuins, req.competencia)

\* the difference of a month asked of claims one of which is dated 'n/a',
\* answered 500 although the other claims answer 200
C18_Witness ==
    /\ req.op = "kpi_sin_diferenca" /\ Resolvido /\ DatasRuins # {}
    /\ resp.status = 500
    /\ kpi_sin_diferenca(SemDatasRuins, req.competencia).status = 200

----------------------------------------------------------------------------
\* The months of the utilization evolution

\* an evolution asked with two months that parse, of an autorizacao table
\* whose columns are found and whose dates all convert
EvolucaoPedida ==
    /\ req.op = "kpi_utilizacao_evolucao" /\ resp # NoResp
    /\ table_exists(db, "autorizacao")
    /\ find_col(db, "autorizacao", <<id_beneficiario>>) # NoneCol
    /\ find_col(db, "autorizacao", <<dt_autorizacao>>) # NoneCol
    /\ PyStrptimeYM(req.desde) # Null /\ PyStrptimeYM(req.ate) # Null
    /\ ~MesRaises(Autorizacoes(db, dt_autorizacao, NoneCol))

\* the months counted from the year 0
MesIdx(c) == c.y * 12 + c.m - 1

MesDoIdx(n) == MonthStr(n \div 12, (n % 12) + 1)

\* every calendar month from a to b, both included, in ascending order
MesesDeAte(a, b) ==
    [i \in 1..(IF MesIdx(b) < MesIdx(a) THEN 0 ELSE MesIdx(b) - MesIdx(a) + 1) |->
        MesDoIdx(MesIdx(a) + i - 1)]

\* the months of the entries of the response
MesesDaEvolucao == [i \in 1..Len(resp.body.evolucao) |-> resp.body.evolucao[i].competencia.s]

\* C19: the evolution from desde to ate has exactly one entry for each
\* calendar month from desde to ate, both included, in ascending order, December
\* followed by January of the next year; the enumeration of the months ends
\* with that series for every desde and ate, the empty series when desde is
\* after ate
C19_OneEntryPerMonth ==
    EvolucaoPedida =>
        /\ resp.status = 200
        /\ MesesDaEvolucao = MesesDeAte(PyStrptimeYM(req.desde), PyStrptimeYM(req.ate))

\* an evolution up to 9999-12, answered 500
C19_Witness ==
    /\ EvolucaoPedida
    /\ PyStrptimeYM(req.ate) = [y |-> MAXYEAR, m |-> 12]
    /\ resp.status = 500

\* the same statement for the evolutions that end before December 9999
C19_OneEntryPerMonthBeforeMaxYear ==
    (EvolucaoPedida /\ PyStrptimeYM(req.ate) # [y |-> MAXYEAR, m |-> 12]) =>
        /\ resp.status = 200
        /\ MesesDaEvolucao = MesesDeAte(PyStrptimeYM(req.desde), PyStrptimeYM(req.ate))

\* an evolution from December to February: three entries across the new year
C19_WitnessRollOver ==
    /\ EvolucaoPedida /\ resp.status = 200
    /\ MesesDaEvolucao = << <<"2","0","2","3","-","1","2">>, Comp202401, Comp202402 >>

\* an evolution whose first month is after its last: no entry
C19_WitnessEmpty ==
    /\ EvolucaoPedida /\ resp.status = 200
    /\ req.desde = Comp202402 /\ req.ate = Comp202401
    /\ resp.body.evolucao = <<>>

----------------------------------------------------------------------------
\* The reload of the data (load_data.py) beside a request (app.py)
\*
\* load_data.py is a process of its own: it opens the DuckDB file, and for
\* each table drops it and creates it again from the CSV file, each statement
\* committed by itself.  A request opens its own connection (get_con) and
\* makes its lookups and its query over it.  DuckDB lets one process at a
\* time open a database file for writing: duckdb.connect raises an
\* IOException while another process holds the file, which get_con turns
\* into a 500 and load_data.py into exit status 1.

\* main(), lines 83-87: the tables in the order they are loaded
LoaderTables == <<"beneficiario", "conta", "mensalidade", "prestador", "autorizacao">>

\* the tables before the reload
OldDB ==
    ("beneficiario" :> Table(BenefCols, <<BenefRow(Num(1), Jan15, Txt(<<"A","T","I","V","O">>), Txt(<<"X">>), ProdA)>>))
    @@ ("conta" :> Table(ContaCols, <<ContaPoolT[1]>>))
    @@ ("mensalidade" :> Table(MensCols, <<MensPoolT[1]>>))
    @@ ("prestador" :> Table(PrestCols, <<PrestRow(Num(1), Txt(<<"P">>))>>))
    @@ ("autorizacao" :> Table(AutCols, <<AutRow(Jan15, Num(1), Num(1), Num(1))>>))

\* the tables read_csv_auto makes of the CSV files
NewDB ==
    ("beneficiario" :> Table(BenefCols, <<BenefRow(Num(1), Jan15, Txt(<<"A","T","I","V","O">>), Txt(<<"X">>), ProdA),
                                          BenefRow(Num(2), Jan15, Txt(<<"A","T","I","V","O">>), Txt(<<"Y">>), ProdB)>>))
    @@ ("conta" :> Table(ContaCols, <<ContaPoolT[1], ContaPoolT[2]>>))
    @@ ("mensalidade" :> Table(MensCols, <<MensPoolT[1], MensPoolT[4]>>))
    @@ ("prestador" :> Table(PrestCols, <<PrestRow(Num(1), Txt(<<"P">>)), PrestRow(Num(2), Txt(<<"Q">>))>>))
    @@ ("autorizacao" :> Table(AutCols, <<AutRow(Jan15, Num(2), Num(1), Num(1))>>))

\* load_data.py is connected: between duckdb.connect (line 79) and con.close()
\* (line 89) or the exit of the process
LoaderHolds(l) == l.pc \in {"load", "create"}

\* a mutation of get_con: the two processes share the database file
get_con_shared(l) == [ok |-> TRUE, err |-> NoResp]

\* app.py lines 19-24: the connection a request asks for, refused while the
\* loader holds the database file
get_con(l) ==
    IF LoaderHolds(l)
    THEN [ok |-> FALSE, err |-> HTTPException(500, Detail("Falha ao abrir DuckDB", {}, {}))]
    ELSE [ok |-> TRUE, err |-> NoResp]

\* get_competencia_and_val_exprs, lines 109-119: the tables its catalogue
\* lookups read, in order (table_exists twice, find_col four times)
Lookups == <<"conta", "mensalidade", "conta", "conta", "mensalidade", "mensalidade">>

\* what one statement of a request reads: the table it is about, the
\* database it ran on, and whether a reload was under way
Obs(t, d, l) == [table |-> t, db |-> d, reloading |-> LoaderHolds(l)]

\* the lookups are over: all made, or one raised (a table that is not there,
\* lines 109 and 31; or no DATA/VALOR column in conta, line 114)
LookupsDone(obs) ==
    \/ Len(obs) = Len(Lookups)
    \/ obs # <<>> /\ ~table_exists(obs[Len(obs)].db, obs[Len(obs)].table)
    \/ Len(obs) = 4 /\ table_exists(obs[3].db, "conta") /\ find_col(obs[3].db, "conta", CAND_DATA_CONTA) = NoneCol
    \/ Len(obs) = 4 /\ table_exists(obs[4].db, "conta") /\ find_col(obs[4].db, "conta", CAND_VALOR_CONTA) = NoneCol

\* load_data.py line 79: duckdb.connect; refused while a request of the
\* server holds the file, and then main() raises and the process exits
LoaderConnect ==
    /\ loader.pc = "off"
    /\ loader' = IF seen.open THEN [pc |-> "exit", i |-> 0] ELSE [pc |-> "load", i |-> 1]
    /\ UNCHANGED <<db, req, resp, seen>>

\* load_table lines 64-66: the CSV file is not there; FileNotFoundError ends
\* the process with the tables loaded so far
LoaderFileMissing ==
    /\ loader.pc = "load" /\ loader.i <= Len(LoaderTables)
    /\ loader' = [pc |-> "exit", i |-> loader.i]
    /\ UNCHANGED <<db, req, resp, seen>>

\* load_with_duckdb line 16: DROP TABLE IF EXISTS, committed by itself
LoaderDrop ==
    /\ loader.pc = "load" /\ loader.i <= Len(LoaderTables)
    /\ db' = DropTable(db, LoaderTables[loader.i])
    /\ loader' = [pc |-> "create", i |-> loader.i]
    /\ UNCHANGED <<req, resp, seen>>

\* load_with_duckdb lines 18-24 (or the pandas fallback, lines 40-42):
\* CREATE TABLE ... AS SELECT, committed by itself
LoaderCreate ==
    /\ loader.pc = "create"
    /\ db' = (LoaderTables[loader.i] :> NewDB[LoaderTables[loader.i]]) @@ db
    /\ loader' = [pc |-> "load", i |-> loader.i + 1]
    /\ UNCHANGED <<req, resp, seen>>

\* lines 28-30 and 58-61: read_csv_auto fails and so does every pandas
\* attempt; load_with_pandas raises and the process exits, the table dropped
LoaderCreateFails ==
    /\ loader.pc = "create"
    /\ loader' = [pc |-> "exit", i |-> loader.i]
    /\ UNCHANGED <<db, req, resp, seen>>

\* main() line 89: con.close() after the last table
LoaderClose ==
    /\ loader.pc = "load" /\ loader.i = Len(LoaderTables) + 1
    /\ loader' = [pc |-> "closed", i |-> loader.i]
    /\ UNCHANGED <<db, req, resp, seen>>

\* kpi_sin_diferenca line 574: con = get_con()
ReqConnect ==
    /\ req.op = "kpi_sin_diferenca" /\ resp = NoResp /\ ~seen.open
    /\ resp' = get_con(loader).err
    /\ seen' = [open |-> get_con(loader).ok, obs |-> <<>>]
    /\ UNCHANGED <<db, req, loader>>

\* one catalogue lookup of get_competencia_and_val_exprs (table_exists, lines
\* 26-28; find_col through get_cols, lines 30-41)
ReqLookup ==
    /\ seen.open /\ ~LookupsDone(seen.obs)
    /\ seen' = [open |-> TRUE, obs |-> Append(seen.obs, Obs(Lookups[Len(seen.obs) + 1], db, loader))]
    /\ UNCHANGED <<db, req, resp, loader>>

\* kpi_sin_diferenca lines 575-587: the query (or the exception a lookup
\* raised), the response, and the connection dropped with the handler's frame
ReqFinish ==
    /\ seen.open /\ LookupsDone(seen.obs)
    /\ resp' = kpi_sin_diferenca(db, req.competencia)
    /\ seen' = [open |-> FALSE, obs |-> Append(seen.obs, Obs("conta", db, loader))]
    /\ UNCHANGED <<db, req, loader>>

InitReload ==
    /\ db \in {OldDB, DropTable(OldDB, "autorizacao")}
    /\ req \in {[op |-> "kpi_sin_diferenca", competencia |-> c] : c \in {Comp202401, Comp202402}}
    /\ resp = NoResp
    /\ loader = LoaderOff
    /\ seen = NoConn

NextReload ==
    \/ LoaderConnect
    \/ LoaderFileMissing
    \/ LoaderDrop
    \/ LoaderCreate
    \/ LoaderCreateFails
    \/ LoaderClose
    \/ ReqConnect
    \/ ReqLookup
    \/ ReqFinish

SpecReload == InitReload /\ [][NextReload]_vars

\* the reload ran to its end
Reloaded == loader.pc = "closed"

\* the reload is under way and has dropped a table it has not yet created
TabelaCaida == loader.pc = "create"

\* the databases a complete load leaves: the tables before it, or all five
\* tables of the CSV files
Completos == {OldDB, DropTable(OldDB, "autorizacao"), NewDB}

C20_WitnessLoaderRefused ==
    /\ loader = [pc |-> "exit", i |-> 0]
    /\ resp.status = 200
    /\ Len(seen.obs) = Len(Lookups) + 1
    /\ seen.obs[1].db = OldDB

\* a request after the reload reads the new tables throughout
C20_WitnessNew ==
    /\ Reloaded
    /\ resp.status = 200
    /\ Len(seen.obs) = Len(Lookups) + 1
    /\ \A k \in 1..Len(seen.obs) : seen.obs[k].db = NewDB

\* a request after a reload that ended in an error reads what the loader
\* left: here, no table conta
C20_WitnessAfterFailure ==
    /\ loader.pc = "exit"
    /\ resp.status = 400
    /\ seen.obs # <<>>
    /\ ~table_exists(seen.obs[1].db, "conta")

----------------------------------------------------------------------------
\* The utilization summary: used within base

\* the three statements of the summary ran on the same day
MesmoDia == req.hoje.util = req.hoje.base /\ req.hoje.base = req.hoje.aut

\* C21: in every utilization summary, for any data and any combination of
\* filters, beneficiarios_utilizados is at most beneficiarios_base: each
\* beneficiary counted as having used the plan in the competency passes the
\* same filters and is counted in the base
C21_UtilizadosWithinBase ==
    ResumoOk => resp.body.beneficiarios_utilizados <= resp.body.beneficiarios_base

\* a summary filtered by a bounded bracket whose first statement ran in the
\* last moments of a year and whose second in the next: a beneficiary is in
\* the bracket for sql_util and out of it for sql_base
C21_Witness ==
    /\ ResumoOk
    /\ Supplied(req.filtros.faixa)
    /\ req.hoje.util.y < req.hoje.base.y
    /\ resp.body.beneficiarios_utilizados = 1
    /\ resp.body.beneficiarios_base = 0

\* when the statements run on one day the used are within the base, under
\* every filter
C21_WithinBaseOnOneDay ==
    ResumoOk /\ MesmoDia =>
        resp.body.beneficiarios_utilizados <= resp.body.beneficiarios_base

\* a filtered summary on one day with a beneficiary who used the plan
C21_WitnessOneDay ==
    /\ ResumoOk /\ MesmoDia
    /\ SuppliedFilters # {}
    /\ resp.body.beneficiarios_utilizados > 0
    /\ resp.body.beneficiarios_utilizados <= resp.body.beneficiarios_base

\* an open-ended bracket across the turn of the year: the base only grows
C21_WitnessOpenBracket ==
    /\ ResumoOk
    /\ req.hoje.util.y < req.hoje.base.y
    /\ resp.body.beneficiarios_utilizados < resp.body.beneficiarios_base
====
